---- MODULE Spec2Model ----
(***************************************************************************)
(* Caption acquisition pipeline of yt-captions-downloader.                 *)
(*                                                                         *)
(* One acquisition (validateAndDownloadSubtitles, src/src/validation.ts)   *)
(* runs the primary path (downloadSubtitles, src/src/youtube.ts) and, when *)
(* that yields nothing and Whisper is enabled, the fallback path           *)
(* (transcribeWithWhisper, src/src/whisper.ts, with downloadAudio).        *)
(* The temp directory is a map from file names to contents; yt-dlp, the    *)
(* transcription service and the file system are the environment, whose    *)
(* outcomes (exit status, files written, I/O errors) are chosen with \E.   *)
(***************************************************************************)
EXTENDS Naturals, Sequences, FiniteSets

(***************************************************************************)
(* Temp directory: names and contents                                      *)
(***************************************************************************)

\* Files yt-dlp can leave for the caption request: <base>.<lang>.<ext>
SubFiles == {"subtitles_base.en.srt", "subtitles_base.en.vtt"}

\* Files yt-dlp can leave for the audio request: the extracted audio and a
\* partial download
AudioFiles == {"audio_base.m4a", "audio_base.m4a.part"}

\* Writable copies of the cookies file made by ensureWritableCookiesFile
CookieFiles == {"cookies_subs.txt", "cookies_audio.txt"}

AllFiles == SubFiles \cup AudioFiles \cup CookieFiles

Absent == "absent"

Blank == "   "

SubContents == {Blank, "1 00:00:00,000 --> 00:00:01,000 Hello", "WEBVTT 00:00.000 --> 00:01.000 Hello"}

Contents == SubContents \cup {"audio bytes", "# Netscape"}

\* urlToSafeBase(url, prefix): the base name of the artifacts of a request
urlToSafeBase(prefix) == prefix \o "_base"

\* String.prototype.startsWith / endsWith over the names of the model
StartsWith(f, base) ==
    /\ Len(f) >= Len(base)
    /\ SubSeq(f, 1, Len(base)) = base

EndsWith(f, ext) ==
    /\ Len(f) >= Len(ext)
    /\ SubSeq(f, Len(f) - Len(ext) + 1, Len(f)) = ext

\* String.prototype.includes
Includes(f, base) ==
    \E i \in 1..Len(f) :
        /\ i + Len(base) - 1 <= Len(f)
        /\ SubSeq(f, i, i + Len(base) - 1) = base

SUB_EXTENSIONS == <<".srt", ".vtt", ".ass", ".lrc">>

SeqRange(s) == {s[i] : i \in 1..Len(s)}

hasSubtitleExtension(f) == \E ext \in SeqRange(SUB_EXTENSIONS) : EndsWith(f, ext)

\* a variant that accepts any file that exists, blank or not
IsUsable_AnyFile(content) == content # Absent

\* content.trim().length > 0
IsUsable(content) == content \notin {Absent, Blank, ""}

\* readdir(dir): the names present, in the order the directory yields them
Readdir(fsys, order) == SelectSeq(order, LAMBDA f : fsys[f] # Absent)

\* Array.prototype.find over the elements that satisfy the test: the first, or "none"
NoFile == "none"

First(hits) == IF Len(hits) > 0 THEN hits[1] ELSE NoFile

\* findSubtitleFile once readdir has answered
FindSubtitleFile(files, baseName, format) ==
    LET extOrder == <<"." \o format>> \o SelectSeq(SUB_EXTENSIONS, LAMBDA e : e # ("." \o format))
        candidateFiles == SelectSeq(files, LAMBDA f : StartsWith(f, baseName) /\ hasSubtitleExtension(f))
        subtitleFile == First(SelectSeq(candidateFiles, LAMBDA f : \E e \in SeqRange(extOrder) : EndsWith(f, e)))
        alternativeFile == First(SelectSeq(files, LAMBDA f : hasSubtitleExtension(f) /\ Includes(f, baseName)))
    IN  IF subtitleFile # NoFile THEN subtitleFile ELSE alternativeFile

\* the audio file downloadAudio looks for after yt-dlp
FindAudioFile(files, baseName) ==
    First(SelectSeq(files, LAMBDA f : StartsWith(f, baseName)
                                      /\ (EndsWith(f, ".m4a") \/ EndsWith(f, ".webm") \/ EndsWith(f, ".mp3"))))

\* a variant that never removes the file
Unlink_Skipped(fsys, f, ok) == fsys

\* unlink(path): removes the file unless the file system refuses
Unlink(fsys, f, ok) == IF ok THEN [fsys EXCEPT ![f] = Absent] ELSE fsys

\* resolveSubtitleFormat: validateAndDownloadSubtitles passes no format
resolveSubtitleFormat == "srt"

(***************************************************************************)
(* Environment configuration                                               *)
(***************************************************************************)

\* a variant whose default mode is 'local'
getWhisperMode_DefaultLocal(raw) == IF raw \in {"off", "api"} THEN raw ELSE "local"

\* getWhisperConfig().mode from the WHISPER_MODE variable
getWhisperMode(raw) == IF raw \in {"local", "api"} THEN raw ELSE "off"

WhisperModeValues == {"unset", "off", "local", "api"}

\* outcomes of execFile('yt-dlp', ...)
ExecFailures == {"ENOENT", "exit1", "signal", "timeout"}

ExecOutcomes == {"ok"} \cup ExecFailures

\* outcomes of the fetch to the transcription service
FetchOutcomes == {"text", "blank", "http_error", "network_error", "timeout"}

WhisperText == "1 00:00:00,000 --> 00:00:01,000 Whisper transcript"

\* the two orders in which readdir can list the caption files
DirOrders ==
    { <<"subtitles_base.en.srt", "subtitles_base.en.vtt", "audio_base.m4a.part", "audio_base.m4a", "cookies_subs.txt", "cookies_audio.txt">>,
      <<"subtitles_base.en.vtt", "subtitles_base.en.srt", "audio_base.m4a.part", "audio_base.m4a", "cookies_subs.txt", "cookies_audio.txt">> }

VARIABLES
    env,        \* process environment: WHISPER_MODE, Whisper credentials, COOKIES_FILE_PATH
    req,        \* the request: "ok", "badurl" or "badlang"
    dirOrder,   \* order in which readdir lists the temp directory
    fs,         \* temp directory: file name -> content or Absent
    pc,         \* position in validateAndDownloadSubtitles
    dpc,        \* position in downloadSubtitles
    wpc,        \* position in transcribeWithWhisper / downloadAudio
    ds,         \* locals and history of downloadSubtitles
    tw,         \* locals and history of transcribeWithWhisper
    calls,      \* number of external invocations made
    out         \* what the caller of validateAndDownloadSubtitles gets

\* the variables of one acquisition
acqVars == <<env, req, dirOrder, fs, pc, dpc, wpc, ds, tw, calls, out>>

\* Two acquisitions in flight at once (downloadSubtitles called concurrently)
VARIABLES
    now,        \* Date.now() as a decimal string
    tmp,        \* the shared temp directory: file name -> content or Absent
    cs          \* per caller: arguments, base name, position, what it read and removed

namesVars == <<now, tmp, cs>>

\* A client paging through one text with paginateText
VARIABLES
    pg          \* the text, the window size, the cursor to send next, and what came back

pageVars == <<pg>>

\* One caption payload and the replies of two requests that obtained it
VARIABLES
    sub         \* the payload, how it was made, and the reply to each request

subVars == <<sub>>

\* The MCP HTTP server: configuration, clock, session maps, SSE transports
VARIABLES
    mcp         \* MCP_AUTH_TOKEN, the TTL, Date.now(), both maps, and the last request

mcpVars == <<mcp>>

\* The argument list of one yt-dlp run
VARIABLES
    ya          \* the options and environment, and the list as it is built

argVars == <<ya>>

\* One call of downloadPlaylistSubtitles
VARIABLES
    pl          \* position, the temp directory, and what the call returned

plVars == <<pl>>

lateVars == <<mcpVars, argVars, plVars>>

\* the variables the single acquisition leaves alone
otherVars == <<namesVars, pageVars, subVars, lateVars>>

vars == <<acqVars, otherVars>>

\* the two callers of downloadSubtitles that are in flight together
Callers == {"A", "B"}

Videos == {"dQw4w9WgXcQ", "9bZkp7q19f0"}

Langs == {"en", "ru"}

\* createHash('sha256').update(url).digest('hex').slice(0, 16): distinct urls
\* get distinct prefixes here
sha256Hex16(url) == IF url = "dQw4w9WgXcQ" THEN "5a1c3e7f9b2d4f60" ELSE "c48e02d7a9b13f56"

\* consecutive values of Date.now(): the millisecond clock
Stamps == <<"1700000000000", "1700000000001">>

\* urlToSafeBase(url, prefix) evaluated when the clock reads t
urlToSafeBaseAt(url, prefix, t) == prefix \o "_" \o sha256Hex16(url) \o "_" \o t

\* the file yt-dlp writes for -o <base>: <base>.<lang>.<ext>
CaptionName(base, lang) == base \o "." \o lang \o ".srt"

NameOf(v, t, l) == CaptionName(urlToSafeBaseAt(v, "subtitles", t), l)

TmpNames == {NameOf(v, Stamps[i], l) : v \in Videos, i \in DOMAIN Stamps, l \in Langs}

\* two orders in which readdir can list the shared directory
TmpOrder ==
    <<NameOf("dQw4w9WgXcQ", Stamps[1], "en"), NameOf("dQw4w9WgXcQ", Stamps[1], "ru"),
      NameOf("dQw4w9WgXcQ", Stamps[2], "en"), NameOf("dQw4w9WgXcQ", Stamps[2], "ru"),
      NameOf("9bZkp7q19f0", Stamps[1], "en"), NameOf("9bZkp7q19f0", Stamps[1], "ru"),
      NameOf("9bZkp7q19f0", Stamps[2], "en"), NameOf("9bZkp7q19f0", Stamps[2], "ru")>>

TmpOrders == {TmpOrder, [i \in DOMAIN TmpOrder |-> TmpOrder[Len(TmpOrder) + 1 - i]]}

\* what yt-dlp writes on behalf of caller c
CaptionsFor(c) == "captions fetched for " \o c

NoCaller == [video |-> "none", lang |-> "none", base |-> "none", pc |-> "idle", inCatch |-> FALSE,
             file |-> NoFile, content |-> "none", removed |-> "none", result |-> "pending"]

\* no concurrent callers: the state of these variables outside SpecNames
NamesQuiet ==
    /\ now = Stamps[1]
    /\ tmp = [f \in TmpNames |-> Absent]
    /\ cs = [c \in Callers |-> NoCaller]

\* no window yet
NoWindow == [ok |-> FALSE, error |-> "none"]

\* no client is paging: the state of pg outside SpecPage
PageQuiet == pg = [text |-> "", limit |-> 1, first |-> <<>>, cursor |-> <<>>, acc |-> "",
                   win |-> NoWindow, calls |-> 0, state |-> "paging"]

\* a request not yet answered
NoSubReply == [endpoint |-> "none", request |-> [type |-> "none", lang |-> "none", subFormat |-> "none"], format |-> "none", parser |-> "none",
               text |-> "", error |-> "none"]

\* no payload is being classified: the state of sub outside SpecSub
SubQuiet == sub = [content |-> <<"">>, dialect |-> "none", fragments |-> <<>>,
                   replies |-> <<NoSubReply, NoSubReply>>]

\* transport.sessionId of the SSE transports, and of the streamable ones (randomUUID)
SseIds == {"sse-1"}

StreamIds == {"mcp-1"}

\* a key that is not in the map
NoSession == [present |-> FALSE, createdAt |-> 0]

\* an SSE transport nobody has asked for yet
NoTransport == [phase |-> "none", closed |-> FALSE, closedIn |-> "none"]

NoSessions == [streamable |-> [i \in StreamIds |-> NoSession], sse |-> [i \in SseIds |-> NoSession]]

\* nothing has been handled yet
NoRequest == [route |-> "none", method |-> "none", header |-> <<>>, sessionId |-> <<>>,
              status |-> 0, reached |-> FALSE,
              before |-> [maps |-> NoSessions, transport |-> [i \in SseIds |-> NoTransport]], at |-> 0]

\* the server has no token, no sessions and no request: the state of mcp outside SpecMcp
McpQuiet == mcp = [authToken |-> "", header |-> <<>>, ttl |-> 1, clock |-> 0, maps |-> NoSessions,
                   transport |-> [i \in SseIds |-> NoTransport], last |-> NoRequest]

\* no argument list is being built: the state of ya outside SpecArgs
\* no option of a search is supplied
NoSearchOptions == [dateAfter |-> "", dateBefore |-> "", date |-> "", matchFilter |-> ""]

\* none of the environment variables appendYtDlpEnvArgs looks at is set
NoYtDlpEnv ==
    [noWarnings |-> "", cookies |-> "", proxy |-> "", jsRuntimes |-> "", remoteComponents |-> "",
     retries |-> "", retrySleep |-> "", sleepRequests |-> "", sleepInterval |-> "",
     maxSleepInterval |-> "", sleepSubtitles |-> "", extraArgs |-> "", ageLimit |-> ""]

ArgsQuiet == ya = [call |-> "none", options |-> NoSearchOptions, env |-> NoYtDlpEnv,
                   before |-> <<>>, args |-> <<>>, done |-> FALSE]

\* downloadPlaylistSubtitles is not running: the state of pl outside SpecPlaylist
\* names yt-dlp can give the files of a playlist run (%(id)s.<lang>.<ext>), and two
\* names the reading loop passes over
PlFiles == <<"abc123.en.srt", "x.y.en.vtt", "notes.srt", "readme.txt">>

\* downloadPlaylistSubtitles has not been called
NoPlaylistCall ==
    [pc |-> "idle", cookies |-> FALSE, cookieTemp |-> FALSE, dir |-> FALSE,
     files |-> [f \in SeqRange(PlFiles) |-> Absent], exec |-> "none", todo |-> <<>>,
     results |-> <<>>, settled |-> "pending", result |-> "pending",
     rmTried |-> FALSE, rmFailed |-> FALSE, cause |-> "none"]

PlQuiet == pl = NoPlaylistCall

LateQuiet == McpQuiet /\ ArgsQuiet /\ PlQuiet

NoReply == [status |-> 0, error |-> "", returned |-> "pending", source |-> "none", content |-> "none"]

Init ==
    /\ env \in [whisperMode : WhisperModeValues, whisperCred : BOOLEAN, cookies : BOOLEAN]
    /\ req \in {"ok", "badurl", "badlang"}
    /\ dirOrder \in DirOrders
    /\ fs = [f \in AllFiles |-> Absent]
    /\ pc = "start"
    /\ dpc = "idle"
    /\ wpc = "idle"
    /\ ds = [exec |-> "none", wrote |-> [f \in SubFiles |-> Absent], file |-> NoFile,
             content |-> "none", result |-> "null", cookieTemp |-> FALSE,
             ioFailed |-> FALSE, unlinkFailed |-> FALSE, cause |-> "none"]
    /\ tw = [exec |-> "none", wrote |-> [f \in AudioFiles |-> Absent], audioPath |-> NoFile,
             fetch |-> "none", content |-> "null", result |-> "null", cookieTemp |-> FALSE,
             unlinkFailed |-> FALSE, cause |-> "none"]
    /\ calls = [subs |-> 0, audio |-> 0, transcribe |-> 0, service |-> 0]
    /\ out = NoReply
    /\ NamesQuiet
    /\ PageQuiet
    /\ SubQuiet
    /\ LateQuiet

(***************************************************************************)
(* downloadSubtitles (src/src/youtube.ts)                                  *)
(***************************************************************************)

\* ensureWritableCookiesFile: the original path, a temp copy, or copyFile throws
CookieOutcomes == {"writable", "copied", "throws"}

\* the files a yt-dlp caption run can leave behind, by exit status
CaptionWrites(o) ==
    IF o = "ENOENT"
    THEN {[f \in SubFiles |-> Absent]}
    ELSE {w \in [SubFiles -> {Absent} \cup SubContents] :
            /\ w["subtitles_base.en.srt"] # "WEBVTT 00:00.000 --> 00:01.000 Hello"
            /\ w["subtitles_base.en.vtt"] # "1 00:00:00,000 --> 00:00:01,000 Hello"}

\* the files a yt-dlp audio run can leave behind, by exit status
AudioWrites(o) ==
    IF o = "ENOENT"
    THEN {[f \in AudioFiles |-> Absent]}
    ELSE {w \in [AudioFiles -> {Absent, "audio bytes"}] :
            o = "ok" => w["audio_base.m4a.part"] = Absent}

\* a variant whose catch block returns null without probing the directory
AfterExec_NoProbe(o) == IF o = "ok" THEN "find" ELSE "finally"

\* a variant without the catch block: the error of execFile propagates
AfterExec_NoCatch(o) == IF o = "ok" THEN "find" ELSE "raised"

\* try { execFileAsync } catch: where control goes after yt-dlp ends
AfterExec(o) == IF o = "ok" THEN "find" ELSE "catch_find"

\* entry: outputPath, then ensureWritableCookiesFile outside the try block
DS_Entry ==
    /\ dpc = "entry"
    /\ IF env.cookies
       THEN \E r \in CookieOutcomes :
              /\ fs' = IF r = "copied" THEN [fs EXCEPT !["cookies_subs.txt"] = "# Netscape"] ELSE fs
              /\ ds' = [ds EXCEPT !.cookieTemp = (r = "copied"),
                                  !.cause = IF r = "throws" THEN "cookies" ELSE @]
              /\ dpc' = IF r = "throws" THEN "raised" ELSE "exec"
       ELSE /\ dpc' = "exec"
            /\ UNCHANGED <<fs, ds>>
    /\ UNCHANGED <<otherVars, env, req, dirOrder, pc, wpc, tw, calls, out>>

\* await execFileAsync('yt-dlp', args, {timeout}): one run of the tool
DS_Exec ==
    /\ dpc = "exec"
    /\ \E o \in ExecOutcomes : \E w \in CaptionWrites(o) :
         /\ fs' = [f \in AllFiles |-> IF f \in SubFiles THEN w[f] ELSE fs[f]]
         /\ ds' = [ds EXCEPT !.exec = o, !.wrote = w]
         /\ dpc' = AfterExec(o)
    /\ calls' = [calls EXCEPT !.subs = @ + 1]
    /\ UNCHANGED <<otherVars, env, req, dirOrder, pc, wpc, tw, out>>

\* findSubtitleFile: readdir errors are caught inside and give null
FindStep(found, missing) ==
    \E readdirOk \in BOOLEAN :
      LET file == IF readdirOk
                  THEN FindSubtitleFile(Readdir(fs, dirOrder), urlToSafeBase("subtitles"), resolveSubtitleFormat)
                  ELSE NoFile
      IN  /\ ds' = [ds EXCEPT !.file = file, !.ioFailed = @ \/ ~readdirOk]
          /\ dpc' = IF file = NoFile THEN missing ELSE found

\* try branch: findSubtitleFile after a successful run
DS_Find ==
    /\ dpc = "find"
    /\ FindStep("read", "finally")
    /\ UNCHANGED <<otherVars, env, req, dirOrder, fs, pc, wpc, tw, calls, out>>

\* try branch: readFile; a read error is thrown into the catch block
DS_Read ==
    /\ dpc = "read"
    /\ \E readOk \in BOOLEAN :
         IF readOk
         THEN /\ ds' = [ds EXCEPT !.content = fs[ds.file]]
              /\ dpc' = IF IsUsable(fs[ds.file]) THEN "unlink" ELSE "finally"
         ELSE /\ ds' = [ds EXCEPT !.ioFailed = TRUE]
              /\ dpc' = "catch_find"
    /\ UNCHANGED <<otherVars, env, req, dirOrder, fs, pc, wpc, tw, calls, out>>

\* a variant where a failed unlink costs the content
UnlinkAndReturn_FailureLosesContent ==
    \E ok \in BOOLEAN :
      /\ fs' = Unlink(fs, ds.file, ok)
      /\ ds' = [ds EXCEPT !.result = IF ok THEN ds.content ELSE "null", !.unlinkFailed = ~ok]
      /\ dpc' = "finally"

\* await unlink(subtitleFile).catch(() => {}); return content
UnlinkAndReturn ==
    \E ok \in BOOLEAN :
      /\ fs' = Unlink(fs, ds.file, ok)
      /\ ds' = [ds EXCEPT !.result = ds.content, !.unlinkFailed = ~ok]
      /\ dpc' = "finally"

DS_Unlink ==
    /\ dpc = "unlink"
    /\ UnlinkAndReturn
    /\ UNCHANGED <<otherVars, env, req, dirOrder, pc, wpc, tw, calls, out>>

\* catch branch: findSubtitleFile despite the error
DS_CatchFind ==
    /\ dpc = "catch_find"
    /\ FindStep("catch_read", "finally")
    /\ UNCHANGED <<otherVars, env, req, dirOrder, fs, pc, wpc, tw, calls, out>>

\* catch branch: readFile inside its own try/catch
DS_CatchRead ==
    /\ dpc = "catch_read"
    /\ \E readOk \in BOOLEAN :
         IF readOk
         THEN /\ ds' = [ds EXCEPT !.content = fs[ds.file]]
              /\ dpc' = IF IsUsable(fs[ds.file]) THEN "catch_unlink" ELSE "finally"
         ELSE /\ ds' = [ds EXCEPT !.ioFailed = TRUE]
              /\ dpc' = "finally"
    /\ UNCHANGED <<otherVars, env, req, dirOrder, fs, pc, wpc, tw, calls, out>>

DS_CatchUnlink ==
    /\ dpc = "catch_unlink"
    /\ UnlinkAndReturn
    /\ UNCHANGED <<otherVars, env, req, dirOrder, pc, wpc, tw, calls, out>>

\* finally { await cookiesCleanup?.() }: unlink of the temp cookies copy, errors swallowed
DS_Finally ==
    /\ dpc = "finally"
    /\ IF ds.cookieTemp
       THEN \E ok \in BOOLEAN : fs' = Unlink(fs, "cookies_subs.txt", ok)
       ELSE fs' = fs
    /\ dpc' = "returned"
    /\ UNCHANGED <<otherVars, env, req, dirOrder, pc, wpc, ds, tw, calls, out>>

(***************************************************************************)
(* transcribeWithWhisper (src/src/whisper.ts), downloadAudio (youtube.ts)  *)
(***************************************************************************)

\* const config = getWhisperConfig(); if (config.mode === 'off') return null
TW_Entry ==
    /\ wpc = "entry"
    /\ wpc' = IF getWhisperMode(env.whisperMode) = "off" THEN "returned" ELSE "audio_entry"
    /\ UNCHANGED <<otherVars, env, req, dirOrder, fs, pc, dpc, ds, tw, calls, out>>

\* downloadAudio entry: ensureWritableCookiesFile outside the try block
DA_Entry ==
    /\ wpc = "audio_entry"
    /\ IF env.cookies
       THEN \E r \in CookieOutcomes :
              /\ fs' = IF r = "copied" THEN [fs EXCEPT !["cookies_audio.txt"] = "# Netscape"] ELSE fs
              /\ tw' = [tw EXCEPT !.cookieTemp = (r = "copied"),
                                  !.cause = IF r = "throws" THEN "cookies" ELSE @]
              /\ wpc' = IF r = "throws" THEN "raised" ELSE "audio_exec"
       ELSE /\ wpc' = "audio_exec"
            /\ UNCHANGED <<fs, tw>>
    /\ UNCHANGED <<otherVars, env, req, dirOrder, pc, dpc, ds, calls, out>>

\* await execFileAsync('yt-dlp', args, {timeout}) for the audio; any failure
\* is caught and downloadAudio returns null
DA_Exec ==
    /\ wpc = "audio_exec"
    /\ \E o \in ExecOutcomes : \E w \in AudioWrites(o) :
         /\ fs' = [f \in AllFiles |-> IF f \in AudioFiles THEN w[f] ELSE fs[f]]
         /\ tw' = [tw EXCEPT !.exec = o, !.wrote = w]
         /\ wpc' = IF o = "ok" THEN "audio_find" ELSE "audio_finally"
    /\ calls' = [calls EXCEPT !.audio = @ + 1]
    /\ UNCHANGED <<otherVars, env, req, dirOrder, pc, dpc, ds, out>>

\* readdir(tempDir) and files.find(...); a readdir error is caught
DA_Find ==
    /\ wpc = "audio_find"
    /\ \E readdirOk \in BOOLEAN :
         tw' = [tw EXCEPT !.audioPath =
                   IF readdirOk
                   THEN FindAudioFile(Readdir(fs, dirOrder), urlToSafeBase("audio"))
                   ELSE NoFile]
    /\ wpc' = "audio_finally"
    /\ UNCHANGED <<otherVars, env, req, dirOrder, fs, pc, dpc, ds, calls, out>>

\* a variant that runs yt-dlp for the audio again when no audio file was found
DA_Finally_Retry ==
    /\ wpc = "audio_finally"
    /\ IF tw.cookieTemp
       THEN \E ok \in BOOLEAN : fs' = Unlink(fs, "cookies_audio.txt", ok)
       ELSE fs' = fs
    /\ wpc' = IF tw.audioPath = NoFile THEN "audio_exec" ELSE "transcribe"
    /\ UNCHANGED <<otherVars, env, req, dirOrder, pc, dpc, ds, tw, calls, out>>

\* finally { await cookiesCleanup?.() }, then back in transcribeWithWhisper:
\* if (!audioPath) return null
DA_Finally ==
    /\ wpc = "audio_finally"
    /\ IF tw.cookieTemp
       THEN \E ok \in BOOLEAN : fs' = Unlink(fs, "cookies_audio.txt", ok)
       ELSE fs' = fs
    /\ wpc' = IF tw.audioPath = NoFile THEN "returned" ELSE "transcribe"
    /\ UNCHANGED <<otherVars, env, req, dirOrder, pc, dpc, ds, tw, calls, out>>

\* transcribeWithWhisperLocal / Api up to the request: missing base URL or
\* API key, or an unreadable audio file, give null without calling the service
TW_Transcribe ==
    /\ wpc = "transcribe"
    /\ IF ~env.whisperCred
       THEN wpc' = "unlink"
       ELSE \E readOk \in BOOLEAN : wpc' = IF readOk THEN "fetch" ELSE "unlink"
    /\ UNCHANGED <<otherVars, env, req, dirOrder, fs, pc, dpc, ds, tw, calls, out>>

\* what transcribeWithWhisperLocal / Api returns for an outcome of the fetch:
\* the body if it has text; null on !res.ok, on a network error and on abort
FetchResult(o) == IF o = "text" THEN WhisperText ELSE "null"

\* a variant where the abort of a timed-out request is not caught
TW_Fetch_TimeoutEscapes ==
    /\ wpc = "fetch"
    /\ \E o \in FetchOutcomes :
         /\ tw' = [tw EXCEPT !.fetch = o, !.content = FetchResult(o),
                             !.cause = IF o = "timeout" THEN "timeout" ELSE @]
         /\ wpc' = IF o = "timeout" THEN "raised" ELSE "unlink"
    /\ calls' = [calls EXCEPT !.service = @ + 1]
    /\ UNCHANGED <<otherVars, env, req, dirOrder, fs, pc, dpc, ds, out>>

\* await fetch(url, {signal}) with the abort timer, inside try/catch
TW_Fetch ==
    /\ wpc = "fetch"
    /\ \E o \in FetchOutcomes :
         tw' = [tw EXCEPT !.fetch = o, !.content = FetchResult(o)]
    /\ calls' = [calls EXCEPT !.service = @ + 1]
    /\ wpc' = "unlink"
    /\ UNCHANGED <<otherVars, env, req, dirOrder, fs, pc, dpc, ds, out>>

\* finally { await unlink(audioPath).catch(() => {}) }; return content
TW_Unlink ==
    /\ wpc = "unlink"
    /\ \E ok \in BOOLEAN :
         /\ fs' = Unlink(fs, tw.audioPath, ok)
         /\ tw' = [tw EXCEPT !.result = tw.content, !.unlinkFailed = ~ok]
    /\ wpc' = "returned"
    /\ UNCHANGED <<otherVars, env, req, dirOrder, pc, dpc, ds, calls, out>>

(***************************************************************************)
(* validateAndDownloadSubtitles (src/src/validation.ts)                    *)
(***************************************************************************)

\* the reply of the Fastify error handler to a rejected handler
ErrorReply == [status |-> 500, error |-> "Internal server error", returned |-> "raised",
               source |-> "none", content |-> "none"]

\* validateYouTubeRequest and sanitizeLang, then the call of downloadSubtitles
V_Start ==
    /\ pc = "start"
    /\ IF req = "ok"
       THEN /\ pc' = "primary"
            /\ dpc' = "entry"
            /\ out' = out
       ELSE /\ pc' = "done"
            /\ dpc' = dpc
            /\ out' = [out EXCEPT !.status = 400, !.returned = "null",
                          !.error = IF req = "badurl" THEN "Invalid YouTube URL"
                                                      ELSE "Invalid language code"]
    /\ UNCHANGED <<otherVars, env, req, dirOrder, fs, wpc, ds, tw, calls>>

\* a variant that does not await the primary path
PrimarySettled_NoAwait == TRUE

\* await downloadSubtitles(...): the promise is settled
PrimarySettled == dpc \in {"returned", "raised"}

\* await transcribeWithWhisper(...): the promise is settled
FallbackSettled == wpc \in {"returned", "raised"}

\* a variant that tries the fallback whatever the primary path returned
NoPrimaryContent_Always(content) == TRUE

\* if (!subtitlesContent) after downloadSubtitles
NoPrimaryContent(content) == content = "null"

\* a variant that never answers 404
NoContent_Never(content) == FALSE

\* if (!subtitlesContent) before the reply
NoContent(content) == content = "null"

\* whisperConfig.mode !== 'off'
FallbackEnabled == getWhisperMode(env.whisperMode) # "off"

\* let subtitlesContent = await downloadSubtitles(...); source = 'youtube';
\* if nothing came back and Whisper is on, call transcribeWithWhisper
V_AfterPrimary ==
    /\ pc = "primary"
    /\ PrimarySettled
    /\ IF dpc = "raised"
       THEN /\ pc' = "done"
            /\ out' = ErrorReply
            /\ UNCHANGED <<wpc, calls>>
       ELSE /\ out' = [out EXCEPT !.content = ds.result, !.source = "youtube"]
            /\ IF NoPrimaryContent(ds.result) /\ FallbackEnabled
               THEN /\ pc' = "fallback"
                    /\ wpc' = "entry"
                    /\ calls' = [calls EXCEPT !.transcribe = @ + 1]
               ELSE /\ pc' = "reply"
                    /\ UNCHANGED <<wpc, calls>>
    /\ UNCHANGED <<otherVars, env, req, dirOrder, fs, dpc, ds, tw>>

\* a variant that forgets to set source = 'whisper'
V_AfterFallback_SourceKept ==
    /\ pc = "fallback"
    /\ FallbackSettled
    /\ IF wpc = "raised"
       THEN /\ pc' = "done"
            /\ out' = ErrorReply
       ELSE /\ pc' = "reply"
            /\ out' = [out EXCEPT !.content = tw.result]
    /\ UNCHANGED <<otherVars, env, req, dirOrder, fs, dpc, wpc, ds, tw, calls>>

\* subtitlesContent = await transcribeWithWhisper(...); source = 'whisper'
V_AfterFallback ==
    /\ pc = "fallback"
    /\ FallbackSettled
    /\ IF wpc = "raised"
       THEN /\ pc' = "done"
            /\ out' = ErrorReply
       ELSE /\ pc' = "reply"
            /\ out' = [out EXCEPT !.content = tw.result, !.source = "whisper"]
    /\ UNCHANGED <<otherVars, env, req, dirOrder, fs, dpc, wpc, ds, tw, calls>>

\* if (!subtitlesContent) reply 404 and return null; else return the result
V_Reply ==
    /\ pc = "reply"
    /\ pc' = "done"
    /\ out' = IF NoContent(out.content)
              THEN [out EXCEPT !.status = 404, !.error = "Subtitles not found",
                               !.returned = "null", !.source = "none"]
              ELSE [out EXCEPT !.status = 200, !.returned = "result"]
    /\ UNCHANGED <<otherVars, env, req, dirOrder, fs, dpc, wpc, ds, tw, calls>>

Next ==
    \/ V_Start
    \/ DS_Entry
    \/ DS_Exec
    \/ DS_Find
    \/ DS_Read
    \/ DS_Unlink
    \/ DS_CatchFind
    \/ DS_CatchRead
    \/ DS_CatchUnlink
    \/ DS_Finally
    \/ V_AfterPrimary
    \/ TW_Entry
    \/ DA_Entry
    \/ DA_Exec
    \/ DA_Find
    \/ DA_Finally
    \/ TW_Transcribe
    \/ TW_Fetch
    \/ TW_Unlink
    \/ V_AfterFallback
    \/ V_Reply

Spec == Init /\ [][Next]_vars

(***************************************************************************)
(* Properties                                                              *)
(***************************************************************************)

\* the 404 reply of validateAndDownloadSubtitles, with no result object
NotFoundReply == [status |-> 404, error |-> "Subtitles not found", returned |-> "null",
                  source |-> "none", content |-> "null"]

\* the temp directory as the caption run of yt-dlp left it
WroteDir == [f \in AllFiles |-> IF f \in SubFiles THEN ds.wrote[f] ELSE Absent]

\* the caption file that matches the request's base name in that directory
MatchingFile == FindSubtitleFile(Readdir(WroteDir, dirOrder), urlToSafeBase("subtitles"), resolveSubtitleFormat)

\* no caption file left by yt-dlp has non-whitespace content
NothingUsable == \A f \in SubFiles : ~IsUsable(ds.wrote[f])

\* WHISPER_MODE selects no transcription service
WhisperDisabled == env.whisperMode \notin {"local", "api"}

DsInProgress == dpc \notin {"idle", "returned", "raised"}

TwInProgress == wpc \notin {"idle", "returned", "raised"}

\* C1: if the yt-dlp caption run fails (tool missing, non-zero exit, crash or
\* timeout) but the caption file matching the request's base name has
\* non-whitespace content (and the directory and the file can be read),
\* downloadSubtitles returns that file's content, the acquisition succeeds
\* with source 'youtube' and the Whisper fallback is never invoked.
C1_FailedRunFileStillReturned ==
    ( /\ dpc = "returned"
      /\ ds.exec \in ExecFailures
      /\ ~ds.ioFailed
      /\ MatchingFile # NoFile
      /\ IsUsable(ds.wrote[MatchingFile]) )
    => /\ ds.result = ds.wrote[MatchingFile]
       /\ calls.transcribe = 0 /\ calls.audio = 0 /\ calls.service = 0
       /\ wpc = "idle"
       /\ pc = "done" => /\ out.status = 200
                         /\ out.returned = "result"
                         /\ out.source = "youtube"
                         /\ out.content = ds.wrote[MatchingFile]

C1_Witness ==
    /\ pc = "done"
    /\ ds.exec = "exit1"
    /\ out.status = 200
    /\ out.source = "youtube"
    /\ IsUsable(out.content)

\* C2: the fallback path (transcribeWithWhisper, the audio download, the
\* transcription call) starts only after downloadSubtitles has returned;
\* the two paths are never in progress at the same time.
C2_PrimaryCompletesBeforeFallback ==
    /\ (wpc # "idle" \/ calls.transcribe > 0 \/ calls.audio > 0 \/ calls.service > 0)
          => dpc = "returned"
    /\ ~(DsInProgress /\ TwInProgress)

C2_Witness ==
    /\ wpc = "fetch"
    /\ calls.audio = 1
    /\ dpc = "returned"

\* C3: transcribeWithWhisper is invoked at most once per acquisition (so are
\* the audio download and the service call), only after downloadSubtitles
\* returned no content; a primary path that returned content never triggers it.
C3_FallbackOnlyOnEmptyPrimaryAtMostOnce ==
    /\ calls.transcribe <= 1
    /\ calls.audio <= 1
    /\ calls.service <= 1
    /\ calls.transcribe > 0 => (dpc = "returned" /\ ds.result = "null")
    /\ ds.result # "null" => (calls.transcribe = 0 /\ wpc = "idle")

C3_Witness ==
    /\ pc = "done"
    /\ calls.transcribe = 1
    /\ calls.service = 1
    /\ tw.fetch = "network_error"
    /\ tw.result = "null"

\* C4: with Whisper disabled no audio is ever downloaded and the
\* transcription service is never called; an acquisition whose primary path
\* returned nothing then ends with the 404 'Subtitles not found' reply.
C4_DisabledFallbackGivesNotFound ==
    WhisperDisabled =>
       /\ calls.audio = 0
       /\ calls.service = 0
       /\ tw.exec = "none" /\ tw.fetch = "none"
       /\ (pc = "done" /\ dpc = "returned" /\ ds.result = "null") => out = NotFoundReply

C4_Witness ==
    /\ pc = "done"
    /\ env.whisperMode = "unset"
    /\ ds.exec = "ok"
    /\ ds.file = NoFile
    /\ out = NotFoundReply

\* C5: when the primary path returned nothing and the enabled fallback
\* returned nothing either, the caller gets the 404 'Subtitles not found'
\* reply, the same as with the fallback disabled, and no result object.
C5_BothPathsEmptyGivesNotFound ==
    ( /\ pc = "done"
      /\ ~WhisperDisabled
      /\ dpc = "returned" /\ ds.result = "null"
      /\ wpc = "returned" /\ tw.result = "null" )
    => out = NotFoundReply

C5_Witness ==
    /\ pc = "done"
    /\ env.whisperMode = "api"
    /\ calls.service = 1
    /\ tw.fetch = "http_error"
    /\ out = NotFoundReply

\* C6: once yt-dlp has been invoked, whatever way the run ends (tool not
\* found, crash, non-zero exit, timeout, or a run that found nothing),
\* downloadSubtitles never raises; when no usable file was left it resolves
\* to null, and the acquisition goes on to the fallback if enabled and to
\* NotFound otherwise; an error reply never comes from the primary tool run.
C6_PrimaryFailuresCollapseToNull ==
    /\ ds.exec # "none" => dpc # "raised"
    /\ (dpc = "returned" /\ NothingUsable) => ds.result = "null"
    /\ (pc = "done" /\ dpc = "returned" /\ NothingUsable) =>
          /\ ~WhisperDisabled => calls.transcribe = 1
          /\ WhisperDisabled => out = NotFoundReply
          /\ out.returned = "raised" => (wpc = "raised" /\ tw.cause = "cookies")

C6_Witness ==
    /\ pc = "done"
    /\ ds.exec = "ENOENT"
    /\ env.whisperMode = "local"
    /\ calls.transcribe = 1
    /\ out = NotFoundReply

C8_NoAudioFileOutlivesAcquisition ==
    (pc = "done" /\ ~tw.unlinkFailed) => \A f \in AudioFiles : fs[f] = Absent

\* C9: a failed unlink of the caption file or of the audio file changes
\* nothing in what the call returns: downloadSubtitles still returns the
\* content it read, transcribeWithWhisper still returns what the service
\* call gave (text or null), neither raises, and the acquisition replies
\* with that content or with NotFound accordingly.
C9_FailedUnlinkKeepsOutcome ==
    /\ (dpc \in {"finally", "returned"} /\ ds.unlinkFailed) =>
          /\ ds.result = ds.content
          /\ ds.result = fs[ds.file]
          /\ IsUsable(ds.result)
    /\ ds.unlinkFailed => dpc # "raised"
    /\ tw.unlinkFailed =>
          /\ wpc = "returned"
          /\ tw.result = tw.content
          /\ tw.fetch # "none" => tw.result = FetchResult(tw.fetch)
          /\ tw.fetch = "none" => tw.result = "null"
    /\ (pc = "done" /\ ds.unlinkFailed) =>
          /\ out.status = 200
          /\ out.source = "youtube"
          /\ out.content = ds.content
    /\ (pc = "done" /\ tw.unlinkFailed) =>
          IF tw.result = "null"
          THEN out = NotFoundReply
          ELSE out.status = 200 /\ out.source = "whisper" /\ out.content = tw.result

C9_Witness ==
    /\ pc = "done"
    /\ ds.unlinkFailed
    /\ ds.exec = "timeout"
    /\ fs[ds.file] = out.content
    /\ out.status = 200

\* C10: a timeout of the primary yt-dlp run, of the audio download or of the
\* transcription request fails only that attempt, which is made once: a
\* primary timeout that left no usable file leads to the fallback if
\* enabled and to NotFound otherwise, a timeout in the fallback leads to
\* NotFound, and no timeout makes downloadSubtitles, transcribeWithWhisper
\* or the acquisition raise.
C10_TimeoutFailsOnlyItsAttempt ==
    /\ ds.exec = "timeout" => (calls.subs = 1 /\ dpc # "raised")
    /\ tw.exec = "timeout" => (calls.audio = 1 /\ wpc # "raised")
    /\ tw.fetch = "timeout" => (calls.service = 1 /\ wpc # "raised" /\ tw.content = "null")
    /\ (pc = "done" /\ ds.exec = "timeout" /\ ds.result = "null") =>
          /\ ~WhisperDisabled => calls.transcribe = 1
          /\ WhisperDisabled => out = NotFoundReply
    /\ (pc = "done" /\ (tw.exec = "timeout" \/ tw.fetch = "timeout")) => out = NotFoundReply
    /\ out.returned = "raised" => (ds.cause = "cookies" \/ tw.cause = "cookies")

C10_Witness ==
    /\ pc = "done"
    /\ ds.exec = "timeout"
    /\ tw.exec = "ok"
    /\ tw.fetch = "timeout"
    /\ calls = [subs |-> 1, audio |-> 1, transcribe |-> 1, service |-> 1]
    /\ out = NotFoundReply

(***************************************************************************)
(* Two concurrent calls of downloadSubtitles on one temp directory         *)
(* (COOKIES_FILE_PATH unset)                                               *)
(***************************************************************************)

\* the single acquisition at rest: the state of its variables in the other specifications
AcqQuiet ==
    /\ env = [whisperMode |-> "unset", whisperCred |-> FALSE, cookies |-> FALSE]
    /\ req = "ok"
    /\ dirOrder = TmpOrder
    /\ fs = [f \in AllFiles |-> Absent]
    /\ pc = "start"
    /\ dpc = "idle"
    /\ wpc = "idle"
    /\ ds = [exec |-> "none", wrote |-> [f \in SubFiles |-> Absent], file |-> NoFile,
             content |-> "none", result |-> "null", cookieTemp |-> FALSE,
             ioFailed |-> FALSE, unlinkFailed |-> FALSE, cause |-> "none"]
    /\ tw = [exec |-> "none", wrote |-> [f \in AudioFiles |-> Absent], audioPath |-> NoFile,
             fetch |-> "none", content |-> "null", result |-> "null", cookieTemp |-> FALSE,
             unlinkFailed |-> FALSE, cause |-> "none"]
    /\ calls = [subs |-> 0, audio |-> 0, transcribe |-> 0, service |-> 0]
    /\ out = NoReply

InitNames ==
    /\ NamesQuiet
    /\ AcqQuiet
    /\ PageQuiet
    /\ SubQuiet
    /\ LateQuiet

\* the millisecond clock advances
N_Tick ==
    /\ now = Stamps[1]
    /\ now' = Stamps[2]
    /\ UNCHANGED <<tmp, cs, acqVars, pageVars, subVars, lateVars>>

\* downloadSubtitles(url, type, lang): outputPath = join(tmpdir(), urlToSafeBase(url, 'subtitles'))
N_Entry(c) ==
    /\ cs[c].pc = "idle"
    /\ \E v \in Videos, l \in Langs :
        cs' = [cs EXCEPT ![c] = [@ EXCEPT !.video = v, !.lang = l, !.pc = "exec",
                                          !.base = urlToSafeBaseAt(v, "subtitles", now)]]
    /\ UNCHANGED <<now, tmp, acqVars, pageVars, subVars, lateVars>>

\* execFile('yt-dlp', ...): may leave <base>.<lang>.srt, then the try or the catch block goes on
N_Exec(c) ==
    /\ cs[c].pc = "exec"
    /\ \E o \in ExecOutcomes, wrote \in BOOLEAN :
        /\ (o = "ENOENT") => ~wrote
        /\ tmp' = IF wrote THEN [tmp EXCEPT ![CaptionName(cs[c].base, cs[c].lang)] = CaptionsFor(c)] ELSE tmp
        /\ cs' = [cs EXCEPT ![c] = [@ EXCEPT !.pc = "find", !.inCatch = (AfterExec(o) = "catch_find")]]
    /\ UNCHANGED <<now, acqVars, pageVars, subVars, lateVars>>

\* findSubtitleFile(basename(outputPath), tempDir, subFormat), in the try or in the catch block
N_Find(c) ==
    /\ cs[c].pc = "find"
    /\ \E order \in TmpOrders :
        LET file == FindSubtitleFile(Readdir(tmp, order), cs[c].base, resolveSubtitleFormat)
        IN  cs' = [cs EXCEPT ![c] = IF file = NoFile
                                    THEN [@ EXCEPT !.pc = "done", !.result = "null"]
                                    ELSE [@ EXCEPT !.pc = "read", !.file = file]]
    /\ UNCHANGED <<now, tmp, acqVars, pageVars, subVars, lateVars>>

\* readFile(subtitleFilePath): rejects when the file is gone; in the try block the catch
\* block then probes again, in the catch block the inner catch gives up
N_Read(c) ==
    /\ cs[c].pc = "read"
    /\ cs' = [cs EXCEPT ![c] =
                IF tmp[cs[c].file] = Absent
                THEN IF cs[c].inCatch
                     THEN [@ EXCEPT !.pc = "done", !.result = "null"]
                     ELSE [@ EXCEPT !.pc = "find", !.inCatch = TRUE]
                ELSE [@ EXCEPT !.pc = "unlink", !.content = tmp[cs[c].file]]]
    /\ UNCHANGED <<now, tmp, acqVars, pageVars, subVars, lateVars>>

\* unlink(subtitleFilePath).catch(() => {}); return content
N_Unlink(c) ==
    /\ cs[c].pc = "unlink"
    /\ tmp' = Unlink(tmp, cs[c].file, TRUE)
    /\ cs' = [cs EXCEPT ![c] = [@ EXCEPT !.pc = "done", !.removed = tmp[cs[c].file],
                                          !.result = cs[c].content]]
    /\ UNCHANGED <<now, acqVars, pageVars, subVars, lateVars>>

NextNames ==
    \/ N_Tick
    \/ \E c \in Callers : N_Entry(c)
    \/ \E c \in Callers : N_Exec(c)
    \/ \E c \in Callers : N_Find(c)
    \/ \E c \in Callers : N_Read(c)
    \/ \E c \in Callers : N_Unlink(c)

SpecNames == InitNames /\ [][NextNames]_vars

InFlight(c) == cs[c].pc \notin {"idle", "done"}

\* C11: any two acquisitions in flight together have distinct base names, and no
\* acquisition reads or removes a caption file written for the other
C11_ConcurrentAcquisitionsDoNotCollide ==
    \A c \in Callers : \A d \in Callers \ {c} :
        /\ (InFlight(c) /\ InFlight(d)) => cs[c].base # cs[d].base
        /\ cs[c].content # CaptionsFor(d)
        /\ cs[c].removed # CaptionsFor(d)

\* the part of C11 about reading and removing alone
C11_NoCrossAccess ==
    \A c \in Callers : \A d \in Callers \ {c} :
        /\ cs[c].content # CaptionsFor(d)
        /\ cs[c].removed # CaptionsFor(d)

\* acquisitions whose base names differ never touch each other's files
C11_DistinctNamesIsolate ==
    \A c \in Callers : \A d \in Callers \ {c} :
        (cs[c].base # cs[d].base) =>
            /\ cs[c].content # CaptionsFor(d)
            /\ cs[c].removed # CaptionsFor(d)

(***************************************************************************)
(* paginateText (src/mcp-core.ts): stateless pagination by character offset *)
(***************************************************************************)

\* longest text paged through
MaxTextLen == 12

\* largest window size (response_limit) tried
MaxLimit == 4

Sample == "abcdefghijklmnopqrstuvwxyz"

Texts == {SubSeq(Sample, 1, n) : n \in 0..MaxTextLen}

\* cursors a client can send on its first call; <<>> is an omitted next_cursor
CursorInputs == {<<>>, <<"">>, <<"0">>, <<"3">>, <<"007">>, <<"12">>, <<"99">>, <<"-1">>, <<"-0">>,
                 <<"+2">>, <<"abc">>, <<"2abc">>, <<" 4">>, <<"1.5">>, <<"1e1">>}

Char(s, i) == SubSeq(s, i, i)

DigitChars == <<"0", "1", "2", "3", "4", "5", "6", "7", "8", "9">>

IsDigit(ch) == ch \in SeqRange(DigitChars)

DigitValue(ch) == (CHOOSE i \in DOMAIN DigitChars : DigitChars[i] = ch) - 1

IsSpace(ch) == ch \in {" ", "\t", "\n", "\r"}

\* index of the first character at or after i that is not white space
RECURSIVE SkipSpace(_, _)
SkipSpace(s, i) == IF i <= Len(s) /\ IsSpace(Char(s, i)) THEN SkipSpace(s, i + 1) ELSE i

\* index just past the run of digits that starts at i
RECURSIVE DigitsEnd(_, _)
DigitsEnd(s, i) == IF i <= Len(s) /\ IsDigit(Char(s, i)) THEN DigitsEnd(s, i + 1) ELSE i

\* value of a string of decimal digits
RECURSIVE DecimalValue(_)
DecimalValue(d) ==
    IF d = "" THEN 0 ELSE 10 * DecimalValue(SubSeq(d, 1, Len(d) - 1)) + DigitValue(Char(d, Len(d)))

NaN == [nan |-> TRUE, neg |-> FALSE, mag |-> 0]

\* Number.parseInt(s, 10): leading white space, an optional sign, then the longest run
\* of digits; whatever follows is ignored, and no digit at all gives NaN
parseInt(s) ==
    LET i == SkipSpace(s, 1)
        signed == i <= Len(s) /\ Char(s, i) \in {"+", "-"}
        j == IF signed THEN i + 1 ELSE i
        k == DigitsEnd(s, j)
    IN  IF k = j THEN NaN
        ELSE [nan |-> FALSE, neg |-> signed /\ Char(s, i) = "-", mag |-> DecimalValue(SubSeq(s, j, k - 1))]

\* a variant that keeps only the last digit
NumberToString_LastDigit(n) == DigitChars[(n % 10) + 1]

\* String(n) for a non-negative integer
RECURSIVE NumberToString(_)
NumberToString(n) == IF n < 10 THEN DigitChars[n + 1] ELSE NumberToString(n \div 10) \o DigitChars[(n % 10) + 1]

Min(a, b) == IF a <= b THEN a ELSE b

\* a variant that also takes the character at index end
Slice_InclusiveEnd(text, start, end) ==
    LET from == Min(start, Len(text))
        to == Min(end + 1, Len(text))
    IN  IF from < to THEN SubSeq(text, from + 1, to) ELSE ""

\* String.prototype.slice(start, end) for non-negative indexes
Slice(text, start, end) ==
    LET from == Min(start, Len(text))
        to == Min(end, Len(text))
    IN  IF from < to THEN SubSeq(text, from + 1, to) ELSE ""

\* a variant that reports truncation on the last window too
IsTruncated_Inclusive(endOffset, totalLength) == endOffset <= totalLength

\* const isTruncated = endOffset < totalLength
IsTruncated(endOffset, totalLength) == endOffset < totalLength

\* Number.isNaN(startOffset) || startOffset < 0 || startOffset > totalLength
InvalidStart(startOffset, totalLength) ==
    \/ startOffset.nan
    \/ startOffset.neg /\ startOffset.mag > 0
    \/ startOffset.mag > totalLength

InvalidCursor == [ok |-> FALSE, error |-> "Invalid next_cursor value."]

\* paginateText(text, limit, nextCursor): the window, or the error it throws
paginateText(text, limit, nextCursor) ==
    LET totalLength == Len(text)
        startOffset == IF nextCursor # <<>> /\ nextCursor[1] # ""
                       THEN parseInt(nextCursor[1])
                       ELSE [nan |-> FALSE, neg |-> FALSE, mag |-> 0]
    IN  IF InvalidStart(startOffset, totalLength)
        THEN InvalidCursor
        ELSE LET endOffset == Min(startOffset.mag + limit, totalLength)
                 chunk == Slice(text, startOffset.mag, endOffset)
                 isTruncated == IsTruncated(endOffset, totalLength)
                 next == IF isTruncated THEN <<NumberToString(endOffset)>> ELSE <<>>
             IN  [ok |-> TRUE, chunk |-> chunk, nextCursor |-> next, isTruncated |-> isTruncated,
                  totalLength |-> totalLength, startOffset |-> startOffset.mag, endOffset |-> endOffset]

InitPage ==
    /\ \E t \in Texts, l \in 1..MaxLimit, c \in CursorInputs :
        pg = [text |-> t, limit |-> l, first |-> c, cursor |-> c, acc |-> "",
              win |-> NoWindow, calls |-> 0, state |-> "paging"]
    /\ AcqQuiet
    /\ NamesQuiet
    /\ SubQuiet
    /\ LateQuiet

\* one call of paginateText with the cursor the client holds; the client keeps the chunk
\* and the returned nextCursor
P_Page ==
    /\ pg.state = "paging"
    /\ LET r == paginateText(pg.text, pg.limit, pg.cursor)
       IN  pg' = IF r.ok
                 THEN [pg EXCEPT !.acc = @ \o r.chunk, !.win = r, !.calls = @ + 1,
                                 !.cursor = r.nextCursor,
                                 !.state = IF r.nextCursor = <<>> THEN "done" ELSE "paging"]
                 ELSE [pg EXCEPT !.win = r, !.calls = @ + 1, !.state = "error"]
    /\ UNCHANGED <<acqVars, namesVars, subVars, lateVars>>

NextPage == P_Page

SpecPage == InitPage /\ [][NextPage]_vars

\* the chain that starts with no cursor
FromStart == pg.first = <<>>

\* C12: starting with no cursor and following nextCursor, paging ends within
\* Len(text) + 1 calls without an error (every call but the last adds at least one
\* character), the chunks concatenated are the text, and the last window has
\* isTruncated = false and no nextCursor
C12_ChainReconstructsText ==
    FromStart =>
        /\ pg.state # "error"
        /\ pg.calls <= Len(pg.text) + 1
        /\ (pg.state = "paging" /\ pg.calls > 0) => (pg.calls <= Len(pg.acc) /\ Len(pg.acc) < Len(pg.text))
        /\ pg.state = "done" =>
            /\ pg.acc = pg.text
            /\ ~pg.win.isTruncated
            /\ pg.win.nextCursor = <<>>

\* a chain of more than three calls over the longest text, whose offsets reach two digits
C12_Witness ==
    /\ FromStart
    /\ pg.state = "done"
    /\ pg.calls > 3
    /\ Len(pg.text) = MaxTextLen
    /\ pg.acc = pg.text

\* C13: every window has 0 <= startOffset <= endOffset <= totalLength, its chunk is
\* the characters [startOffset, endOffset) of the text, and the chunk is no longer
\* than the window size
C13_WindowWithinText ==
    pg.win.ok =>
        /\ 0 <= pg.win.startOffset
        /\ pg.win.startOffset <= pg.win.endOffset
        /\ pg.win.endOffset <= pg.win.totalLength
        /\ pg.win.totalLength = Len(pg.text)
        /\ Len(pg.win.chunk) = pg.win.endOffset - pg.win.startOffset
        /\ \A i \in 1..Len(pg.win.chunk) : Char(pg.win.chunk, i) = Char(pg.text, pg.win.startOffset + i)
        /\ Len(pg.win.chunk) <= pg.limit

\* a window strictly inside the text
C13_Witness ==
    /\ pg.win.ok
    /\ 0 < pg.win.startOffset
    /\ pg.win.startOffset < pg.win.endOffset
    /\ pg.win.endOffset < pg.win.totalLength

\* s is the decimal numeral of n: digits only, no leading zero, value n
IsDecimalOf(s, n) ==
    /\ Len(s) > 0
    /\ \A i \in 1..Len(s) : IsDigit(Char(s, i))
    /\ (Len(s) > 1) => Char(s, 1) # "0"
    /\ DecimalValue(s) = n

\* C14: nextCursor is present iff endOffset < totalLength, it is then the decimal
\* string of endOffset, and isTruncated is true in exactly those windows
C14_NextCursorIffTruncated ==
    pg.win.ok =>
        /\ (pg.win.nextCursor # <<>>) <=> (pg.win.endOffset < pg.win.totalLength)
        /\ pg.win.isTruncated <=> (pg.win.endOffset < pg.win.totalLength)
        /\ (pg.win.nextCursor # <<>>) => IsDecimalOf(pg.win.nextCursor[1], pg.win.endOffset)

\* a truncated window whose cursor has two digits
C14_Witness ==
    /\ pg.win.ok
    /\ pg.win.isTruncated
    /\ pg.win.endOffset >= 10
    /\ pg.win.nextCursor = <<NumberToString(pg.win.endOffset)>>

\* the last window of a text: nothing follows it
C14_LastWindowReached ==
    /\ pg.win.ok
    /\ pg.win.endOffset = pg.win.totalLength
    /\ pg.win.totalLength > 0

\* s reads as an integer: optional white space around an optionally signed run of digits
IsIntegerText(s) ==
    LET i == SkipSpace(s, 1)
        j == IF i <= Len(s) /\ Char(s, i) \in {"+", "-"} THEN i + 1 ELSE i
        k == DigitsEnd(s, j)
    IN  /\ k > j
        /\ SkipSpace(s, k) = Len(s) + 1

\* the cursor the client supplied on its first call is not a non-negative integer
\* within the text
BadCursor ==
    /\ pg.first # <<>>
    /\ \/ ~IsIntegerText(pg.first[1])
       \/ parseInt(pg.first[1]).neg /\ parseInt(pg.first[1]).mag > 0
       \/ parseInt(pg.first[1]).mag > Len(pg.text)

\* C15: a call whose supplied cursor is not parsable as a non-negative integer, or
\* exceeds totalLength, fails with the invalid-cursor error and returns no window
C15_InvalidCursorFails ==
    (BadCursor /\ pg.calls > 0) => (pg.state = "error" /\ pg.win = InvalidCursor)

\* what the guard of paginateText does enforce: a non-empty cursor for which parseInt
\* gives NaN, a negative value or a value beyond the text is refused
C15_ParsedValueIsChecked ==
    (/\ pg.calls > 0
     /\ pg.first # <<>>
     /\ pg.first[1] # ""
     /\ InvalidStart(parseInt(pg.first[1]), Len(pg.text))) => (pg.state = "error" /\ pg.win = InvalidCursor)

(***************************************************************************)
(* Subtitle text: a payload is the sequence of its lines (content.split     *)
(* on line feeds); the operators below work on one line, character by       *)
(* character, as the string methods and regular expressions of the source   *)
(***************************************************************************)

\* String.prototype.trimStart / trimEnd / trim
RECURSIVE LastNonSpace(_, _)
LastNonSpace(s, i) == IF i >= 1 /\ IsSpace(Char(s, i)) THEN LastNonSpace(s, i - 1) ELSE i

TrimStart(s) == SubSeq(s, SkipSpace(s, 1), Len(s))

TrimEnd(s) == SubSeq(s, 1, LastNonSpace(s, Len(s)))

Trim(s) == TrimEnd(TrimStart(s))

\* the string from index i (1-based) to its end
From(s, i) == SubSeq(s, i, Len(s))

\* s has the literal lit at index i
At(s, i, lit) == i >= 1 /\ i + Len(lit) - 1 <= Len(s) /\ SubSeq(s, i, i + Len(lit) - 1) = lit

\* String.prototype.indexOf(lit, from) with 1-based indexes; 0 when there is none
RECURSIVE IndexOf(_, _, _)
IndexOf(s, lit, i) ==
    IF i + Len(lit) - 1 > Len(s) THEN 0
    ELSE IF At(s, i, lit) THEN i ELSE IndexOf(s, lit, i + 1)

\* the number of digits at index i, as \d{n} needs them
DigitRun(s, i) == DigitsEnd(s, i) - i

\* /^\d+$/
IsAllDigits(s) == Len(s) > 0 /\ DigitsEnd(s, 1) = Len(s) + 1

\* \d{2}:\d{2}:\d{2}[,.]\d{3} at index i: the index just past it, or 0
ClockEnd(s, i) ==
    IF /\ DigitRun(s, i) >= 2 /\ At(s, i + 2, ":")
       /\ DigitRun(s, i + 3) >= 2 /\ At(s, i + 5, ":")
       /\ DigitRun(s, i + 6) >= 2 /\ (At(s, i + 8, ",") \/ At(s, i + 8, "."))
       /\ DigitRun(s, i + 9) >= 3
    THEN i + 12 ELSE 0

\* /^\d{2}:\d{2}:\d{2}[,.]\d{3}\s*-->\s*\d{2}:\d{2}:\d{2}[,.]\d{3}/
IsTimestampLine(s) ==
    LET a == ClockEnd(s, 1)
        b == SkipSpace(s, a)
    IN  /\ a > 0
        /\ At(s, b, "-->")
        /\ ClockEnd(s, SkipSpace(s, b + 3)) > 0

\* /^\[\d{1,2}:\d{2}(?:\.\d{2,3})?\]/ at the start of s: the index just past the
\* closing bracket, or 0
LrcTagEnd(s) ==
    LET m == IF DigitRun(s, 2) >= 1 /\ At(s, 3, ":") THEN 3
             ELSE IF DigitRun(s, 2) >= 2 /\ At(s, 4, ":") THEN 4 ELSE 0
        f == m + 3
    IN  IF ~At(s, 1, "[") \/ m = 0 \/ DigitRun(s, m + 1) < 2 THEN 0
        ELSE IF At(s, f, "]") THEN f + 1
        ELSE IF At(s, f, ".") /\ DigitRun(s, f + 1) >= 2 /\ At(s, f + 3, "]") THEN f + 4
        ELSE IF At(s, f, ".") /\ DigitRun(s, f + 1) >= 3 /\ At(s, f + 4, "]") THEN f + 5
        ELSE 0

\* String.prototype.replace(/lit/g, rep) for a literal
RECURSIVE ReplaceAll(_, _, _, _)
ReplaceAll(s, lit, rep, i) ==
    IF i > Len(s) THEN ""
    ELSE IF At(s, i, lit) THEN rep \o ReplaceAll(s, lit, rep, i + Len(lit))
    ELSE Char(s, i) \o ReplaceAll(s, lit, rep, i + 1)

\* replace(/<[^>]+>/g, '') and replace(/\[[^\]]+\]/g, ''): drops every opener up to
\* the next closer when at least one character lies between them
RECURSIVE RemoveDelimited(_, _, _, _)
RemoveDelimited(s, open, close, i) ==
    IF i > Len(s) THEN ""
    ELSE IF Char(s, i) = open /\ IndexOf(s, close, i + 1) >= i + 2
         THEN RemoveDelimited(s, open, close, IndexOf(s, close, i + 1) + 1)
         ELSE Char(s, i) \o RemoveDelimited(s, open, close, i + 1)

\* replace(/^>>\s*/g, '')
StripLeadingSpeaker(s) == IF At(s, 1, ">>") THEN From(s, SkipSpace(s, 3)) ELSE s

\* replace(/\s*>>\s*/g, ' ')
RECURSIVE ReplaceSpeakers(_, _)
ReplaceSpeakers(s, i) ==
    IF i > Len(s) THEN ""
    ELSE IF At(s, SkipSpace(s, i), ">>")
         THEN " " \o ReplaceSpeakers(s, SkipSpace(s, SkipSpace(s, i) + 2))
         ELSE Char(s, i) \o ReplaceSpeakers(s, i + 1)

\* /::cue\([^)]+\)\s*\{[^}]*\}/ at index i: the index just past the match, or 0
CueStyleEnd(s, i) ==
    LET j == IndexOf(s, ")", i + 6)
        k == SkipSpace(s, j + 1)
        m == IndexOf(s, "}", k + 1)
    IN  IF At(s, i, "::cue(") /\ j >= i + 7 /\ At(s, k, "{") /\ m > 0 THEN m + 1 ELSE 0

\* replace(/::cue\([^)]+\)\s*\{[^}]*\}/g, '')
RECURSIVE RemoveCueStyles(_, _)
RemoveCueStyles(s, i) ==
    IF i > Len(s) THEN ""
    ELSE IF CueStyleEnd(s, i) > 0 THEN RemoveCueStyles(s, CueStyleEnd(s, i))
    ELSE Char(s, i) \o RemoveCueStyles(s, i + 1)

\* replace(/\s+/g, ' ')
RECURSIVE CollapseSpace(_, _)
CollapseSpace(s, i) ==
    IF i > Len(s) THEN ""
    ELSE IF IsSpace(Char(s, i)) THEN " " \o CollapseSpace(s, SkipSpace(s, i))
    ELSE Char(s, i) \o CollapseSpace(s, i + 1)

\* a variant without the final replace(/\s+/g, ' ')
cleanSubtitleLine_NoCollapse(line) ==
    LET noTags == RemoveDelimited(line, "<", ">", 1)
        noSpeakers == ReplaceSpeakers(StripLeadingSpeaker(noTags), 1)
        noLabels == RemoveDelimited(noSpeakers, "[", "]", 1)
        noCue == RemoveCueStyles(noLabels, 1)
    IN  Trim(noCue)

\* cleanSubtitleLine(line)
cleanSubtitleLine(line) ==
    LET noTags == RemoveDelimited(line, "<", ">", 1)
        noSpeakers == ReplaceSpeakers(StripLeadingSpeaker(noTags), 1)
        noLabels == RemoveDelimited(noSpeakers, "[", "]", 1)
        noCue == RemoveCueStyles(noLabels, 1)
    IN  Trim(CollapseSpace(noCue, 1))

\* textLines.join(' ')
RECURSIVE Join(_)
Join(textLines) ==
    IF Len(textLines) = 0 THEN ""
    ELSE IF Len(textLines) = 1 THEN textLines[1]
    ELSE textLines[1] \o " " \o Join(Tail(textLines))

\* replace(/^\d+\s+/g, '')
StripLeadingNumber(s) ==
    LET d == DigitsEnd(s, 1)
    IN  IF d > 1 /\ SkipSpace(s, d) > d THEN From(s, SkipSpace(s, d)) ELSE s

\* replace(/\s+\d+\s+/g, ' ')
RECURSIVE StripInnerNumbers(_, _)
StripInnerNumbers(s, i) ==
    LET a == SkipSpace(s, i)
        d == DigitsEnd(s, a)
        b == SkipSpace(s, d)
    IN  IF i > Len(s) THEN ""
        ELSE IF a > i /\ d > a /\ b > d THEN " " \o StripInnerNumbers(s, b)
        ELSE Char(s, i) \o StripInnerNumbers(s, i + 1)

\* index of the last character at or before i that is not a digit
RECURSIVE LastNonDigit(_, _)
LastNonDigit(s, i) == IF i >= 1 /\ IsDigit(Char(s, i)) THEN LastNonDigit(s, i - 1) ELSE i

\* replace(/\s+\d+$/g, '')
StripTrailingNumber(s) ==
    LET d == LastNonDigit(s, Len(s))
        w == LastNonSpace(s, d)
    IN  IF d < Len(s) /\ w < d THEN SubSeq(s, 1, w) ELSE s

\* the text fragment parseSRT takes from one line, "" when the line gives none
SrtFragment(raw) ==
    LET line == Trim(raw)
    IN  IF line = "" \/ IsAllDigits(line) \/ IsTimestampLine(line) THEN ""
        ELSE Trim(CollapseSpace(StripTrailingNumber(StripInnerNumbers(StripLeadingNumber(cleanSubtitleLine(line)), 1)), 1))

NonEmpty(textLines) == SelectSeq(textLines, LAMBDA t : t # "")

\* parseSRT(content)
parseSRT(lines) == Join(NonEmpty([i \in DOMAIN lines |-> SrtFragment(lines[i])]))

\* the index of the first line after the WEBVTT header, NOTE lines and blank lines
RECURSIVE VttHeaderEnd(_, _)
VttHeaderEnd(lines, i) ==
    IF i <= Len(lines) /\ (StartsWith(lines[i], "WEBVTT") \/ StartsWith(lines[i], "NOTE") \/ Trim(lines[i]) = "")
    THEN VttHeaderEnd(lines, i + 1) ELSE i

\* the text fragment parseVTT takes from one line after the header
VttFragment(raw) ==
    LET line == Trim(raw)
    IN  IF \/ line = ""
           \/ IsTimestampLine(line)
           \/ StartsWith(line, "STYLE") \/ StartsWith(line, "::cue") \/ StartsWith(line, "NOTE")
        THEN "" ELSE cleanSubtitleLine(line)

\* parseVTT(content)
parseVTT(lines) ==
    LET body == SubSeq(lines, VttHeaderEnd(lines, 1), Len(lines))
    IN  Join(NonEmpty([i \in DOMAIN body |-> VttFragment(body[i])]))

\* the loop bound of parseASS: for (let i = 0; i < 9 && rest; i++)
ASS_SKIP_ROUNDS == 9

\* n rounds of: rest = next >= 0 ? rest.slice(next + 1) : rest, while rest is not empty
RECURSIVE SkipFields(_, _)
SkipFields(rest, n) ==
    IF n = 0 \/ rest = "" THEN rest
    ELSE SkipFields(IF IndexOf(rest, ",", 1) > 0 THEN From(rest, IndexOf(rest, ",", 1) + 1) ELSE rest, n - 1)

\* the cue text parseASS takes from a trimmed Dialogue line, before cleaning
AssCueText(trimmed) ==
    LET commaIdx == IndexOf(trimmed, ",", Len("Dialogue:") + 1)
        rest == IF commaIdx > 0 THEN From(trimmed, commaIdx + 1) ELSE ""
    IN  Trim(ReplaceAll(ReplaceAll(SkipFields(rest, ASS_SKIP_ROUNDS), "\\N", " ", 1), "\\n", " ", 1))

\* the lines parseASS reads as dialogue: those after the first [Events] line
RECURSIVE AssFragments(_, _, _)
AssFragments(lines, i, inEvents) ==
    IF i > Len(lines) THEN <<>>
    ELSE LET trimmed == Trim(lines[i])
         IN  IF StartsWith(trimmed, "[Events]") THEN AssFragments(lines, i + 1, TRUE)
             ELSE IF inEvents /\ StartsWith(trimmed, "Dialogue:")
                  THEN <<cleanSubtitleLine(AssCueText(trimmed))>> \o AssFragments(lines, i + 1, inEvents)
                  ELSE AssFragments(lines, i + 1, inEvents)

\* parseASS(content)
parseASS(lines) == Join(NonEmpty(AssFragments(lines, 1, FALSE)))

\* the text fragment parseLRC takes from one line: match[1] of
\* /^\[\d{1,2}:\d{2}(?:\.\d{2,3})?\]\s*(.+)$/, cleaned
LrcFragment(line) ==
    LET e == LrcTagEnd(line)
        rest == From(line, e)
        text == IF TrimStart(rest) # "" THEN TrimStart(rest) ELSE From(rest, Len(rest))
    IN  IF e = 0 \/ rest = "" \/ IndexOf(text, "\r", 1) > 0 THEN "" ELSE cleanSubtitleLine(text)

\* parseLRC(content)
parseLRC(lines) == Join(NonEmpty([i \in DOMAIN lines |-> LrcFragment(lines[i])]))

(***************************************************************************)
(* detectSubtitleFormat and parseSubtitles (src/src/youtube.ts)            *)
(***************************************************************************)

SubtitleFormats == {"srt", "vtt", "ass", "lrc"}

\* index of the first line at or after i, and of the last line at or before i, that
\* is not white space only
RECURSIVE FirstTextLine(_, _)
FirstTextLine(lines, i) == IF i <= Len(lines) /\ Trim(lines[i]) = "" THEN FirstTextLine(lines, i + 1) ELSE i

RECURSIVE LastTextLine(_, _)
LastTextLine(lines, i) == IF i >= 1 /\ Trim(lines[i]) = "" THEN LastTextLine(lines, i - 1) ELSE i

\* content.trim(), on the lines of the content
TrimContent(lines) ==
    LET a == FirstTextLine(lines, 1)
        b == LastTextLine(lines, Len(lines))
    IN  IF a > Len(lines) THEN <<"">>
        ELSE IF a = b THEN <<Trim(lines[a])>>
        ELSE <<TrimStart(lines[a])>> \o SubSeq(lines, a + 1, b - 1) \o <<TrimEnd(lines[b])>>

\* trimmed.startsWith('WEBVTT')
HasWebvttHeader(trimmed) == StartsWith(trimmed[1], "WEBVTT")

ASS_MARKERS == {"[Script Info]", "[V4+ Styles]", "[Events]"}

\* /^\[Script Info\]|^\[V4\+ Styles\]|^\[Events\]/m.test(trimmed)
HasAssMarker(trimmed) == \E i \in DOMAIN trimmed : \E m \in ASS_MARKERS : StartsWith(trimmed[i], m)

\* /^\[\d{1,2}:\d{2}(?:\.\d{2,3})?\]/m.test(trimmed)
HasLrcTag(trimmed) == \E i \in DOMAIN trimmed : LrcTagEnd(trimmed[i]) > 0

\* a variant with no fallback dialect
DefaultFormat_None == "unknown"

\* return 'srt'
DefaultFormat == "srt"

\* a variant that looks for the timestamp bracket before the section markers
detectSubtitleFormat_LrcFirst(content) ==
    LET trimmed == TrimContent(content)
    IN  IF HasWebvttHeader(trimmed) THEN "vtt"
        ELSE IF HasLrcTag(trimmed) THEN "lrc"
        ELSE IF HasAssMarker(trimmed) THEN "ass"
        ELSE DefaultFormat

\* detectSubtitleFormat(content)
detectSubtitleFormat(content) ==
    LET trimmed == TrimContent(content)
    IN  IF HasWebvttHeader(trimmed) THEN "vtt"
        ELSE IF HasAssMarker(trimmed) THEN "ass"
        ELSE IF HasLrcTag(trimmed) THEN "lrc"
        ELSE DefaultFormat

\* parseSubtitles(content): the parser the switch selects and its transcript, or the
\* error of the default branch
parseSubtitles(content) ==
    LET format == detectSubtitleFormat(content)
    IN  IF format = "vtt" THEN [ok |-> TRUE, format |-> format, parser |-> "parseVTT", text |-> parseVTT(content)]
        ELSE IF format = "srt" THEN [ok |-> TRUE, format |-> format, parser |-> "parseSRT", text |-> parseSRT(content)]
        ELSE IF format = "ass" THEN [ok |-> TRUE, format |-> format, parser |-> "parseASS", text |-> parseASS(content)]
        ELSE IF format = "lrc" THEN [ok |-> TRUE, format |-> format, parser |-> "parseLRC", text |-> parseLRC(content)]
        ELSE [ok |-> FALSE, format |-> format, parser |-> "none", text |-> ""]

(***************************************************************************)
(* Payloads, and the handlers that classify and parse them                 *)
(* (POST /subtitles, POST /subtitles/raw, get_transcript, get_raw_subtitles) *)
(***************************************************************************)

\* lines a payload can be made of
DialogueHead == "Dialogue: 0,0:00:00.00,0:00:05.00,Default,,0,0,0,,"

PayloadLines ==
    {"", "WEBVTT", "  WEBVTT - en", "[Script Info]", "[Events]", " [Events]",
     "[00:12.00]Hello world", "[1:05]Hi", "Hello world", "[music]", "1", "Title: Test"}

HeadLines == {"", "WEBVTT", "[Events]", "Hello world"}

MidLines == {"WEBVTT", "[V4+ Styles]", "[00:12.50]Hi", "x [Events]"}

TailLines == {"", "[Script Info]", "[00:24]there", "00:00:00.000 --> 00:00:05.000"}

\* payloads of one, two and three lines
RawPayloads ==
    {<<a>> : a \in PayloadLines}
    \cup {<<a, b>> : a \in PayloadLines, b \in PayloadLines}
    \cup {<<a, b, c>> : a \in HeadLines, b \in MidLines, c \in TailLines}

\* cue lines with leading, trailing and repeated white space, and with markup whose
\* removal leaves white space behind
SpacedLines ==
    {"  Hi \t [x]  you ", ">> a <b>  c", " 1  b 2 ", "[x] <i> ", "a \\N  b"}

\* each of them alone (SRT) and as the cue of a VTT, an ASS and an LRC file
SpacedPayloads ==
    {<<a>> : a \in SpacedLines}
    \cup {<<"WEBVTT", "", a>> : a \in SpacedLines}
    \cup {<<"[Events]", "Dialogue: 0,,,,,,,,," \o a>> : a \in SpacedLines}
    \cup {<<"[0:01]" \o a, "[0:02]" \o a>> : a \in SpacedLines}

\* text fragments to serialize: each is already what cleanSubtitleLine returns for it
Fragments == {"Hello world", "This is a test", "I have 2 cats", "Hello, world", "NOTE this", "2024"}

FragmentSeqs == {<<f>> : f \in Fragments} \cup {<<f, g>> : f \in Fragments, g \in Fragments}

RECURSIVE Flatten(_)
Flatten(seqs) == IF Len(seqs) = 0 THEN <<>> ELSE Head(seqs) \o Flatten(Tail(seqs))

AssHeader ==
    <<"[Script Info]", "Title: Test", "", "[Events]",
      "Format: Layer, Start, End, Style, Name, MarginL, MarginR, MarginV, Effect, Text">>

\* a well-formed caption file of the dialect with one cue per fragment, laid out as the
\* fixtures of the parser tests
Serialize(dialect, fragments) ==
    IF dialect = "srt"
    THEN Flatten([i \in DOMAIN fragments |-> <<NumberToString(i), "00:00:00,000 --> 00:00:05,000", fragments[i], "">>])
    ELSE IF dialect = "vtt"
    THEN <<"WEBVTT", "">> \o Flatten([i \in DOMAIN fragments |-> <<"00:00:00.000 --> 00:00:05.000", fragments[i], "">>])
    ELSE IF dialect = "ass"
    THEN AssHeader \o [i \in DOMAIN fragments |-> DialogueHead \o fragments[i]]
    ELSE [i \in DOMAIN fragments |-> "[00:12.00]" \o fragments[i]]

\* what a caller asks for: track kind, language, and the preferred file format
\* (the format argument of downloadSubtitles, or YT_DLP_SUB_FORMAT)
Requests ==
    {[type |-> "auto", lang |-> "en", subFormat |-> "srt"],
     [type |-> "official", lang |-> "en", subFormat |-> "srt"],
     [type |-> "auto", lang |-> "ru", subFormat |-> "srt"],
     [type |-> "auto", lang |-> "en", subFormat |-> "vtt"]}

InitSub ==
    /\ \/ \E c \in RawPayloads \cup SpacedPayloads :
            sub = [content |-> c, dialect |-> "none", fragments |-> <<>>,
                   replies |-> <<NoSubReply, NoSubReply>>]
       \/ \E d \in SubtitleFormats, fr \in FragmentSeqs :
            sub = [content |-> Serialize(d, fr), dialect |-> d, fragments |-> fr,
                   replies |-> <<NoSubReply, NoSubReply>>]
    /\ AcqQuiet
    /\ NamesQuiet
    /\ PageQuiet
    /\ LateQuiet

\* a variant that reports the format the caller asked for
ReportedFormat_AsRequested(content, request) == request.subFormat

\* const format = detectSubtitleFormat(subtitlesContent), in a handler that also has
\* the request in scope
ReportedFormat(content, request) == detectSubtitleFormat(content)

\* POST /subtitles/raw and get_raw_subtitles: the payload with its detected format
S_Raw(k) ==
    /\ sub.replies[k].endpoint = "none"
    /\ \E r \in Requests :
        sub' = [sub EXCEPT !.replies[k] =
                    [endpoint |-> "raw", request |-> r, format |-> ReportedFormat(sub.content, r),
                     parser |-> "none", text |-> "", error |-> "none"]]
    /\ UNCHANGED <<acqVars, namesVars, pageVars, lateVars>>

\* POST /subtitles and get_transcript: the transcript parseSubtitles gives, or its error
S_Transcript(k) ==
    /\ sub.replies[k].endpoint = "none"
    /\ LET parsed == parseSubtitles(sub.content)
           answer == [endpoint |-> "transcript", request |-> NoSubReply.request, format |-> parsed.format,
                      parser |-> parsed.parser, text |-> parsed.text,
                      error |-> IF parsed.ok THEN "none" ELSE "Unsupported subtitle format"]
       IN  \E r \in Requests : sub' = [sub EXCEPT !.replies[k] = [answer EXCEPT !.request = r]]
    /\ UNCHANGED <<acqVars, namesVars, pageVars, lateVars>>

NextSub ==
    \/ \E k \in {1, 2} : S_Raw(k)
    \/ \E k \in {1, 2} : S_Transcript(k)

SpecSub == InitSub /\ [][NextSub]_vars

Answered(k) == sub.replies[k].endpoint # "none"

Trimmed == TrimContent(sub.content)

\* C16: every payload, the empty one included, is classified as exactly one of srt,
\* vtt, ass, lrc without an error, and a payload with none of the VTT, ASS or LRC
\* signals is classified as srt
C16_DetectIsTotalDefaultSrt ==
    \A k \in {1, 2} :
        Answered(k) =>
            /\ sub.replies[k].format \in SubtitleFormats
            /\ sub.replies[k].error = "none"
            /\ (~HasWebvttHeader(Trimmed) /\ ~HasAssMarker(Trimmed) /\ ~HasLrcTag(Trimmed))
                    => sub.replies[k].format = "srt"

\* the empty payload has been classified
C16_Witness ==
    /\ sub.content = <<"">>
    /\ Answered(1)
    /\ sub.replies[1].format = "srt"

\* C17: a payload whose trimmed text starts with WEBVTT is vtt whatever else it
\* holds; otherwise one with an ASS section marker is ass even with an LRC timestamp
\* bracket; otherwise one with an LRC timestamp bracket is lrc
C17_FirstMatchWins ==
    \A k \in {1, 2} :
        Answered(k) =>
            /\ HasWebvttHeader(Trimmed) => sub.replies[k].format = "vtt"
            /\ (~HasWebvttHeader(Trimmed) /\ HasAssMarker(Trimmed)) => sub.replies[k].format = "ass"
            /\ (~HasWebvttHeader(Trimmed) /\ ~HasAssMarker(Trimmed) /\ HasLrcTag(Trimmed))
                    => sub.replies[k].format = "lrc"

\* a payload with an ASS marker and an LRC bracket, but no WEBVTT header, classified
C17_Witness ==
    /\ ~HasWebvttHeader(Trimmed)
    /\ HasAssMarker(Trimmed)
    /\ HasLrcTag(Trimmed)
    /\ Answered(1)
    /\ sub.replies[1].format = "ass"

\* a payload with all three signals classified as vtt
C17_AllSignalsReached ==
    /\ HasWebvttHeader(Trimmed)
    /\ HasAssMarker(Trimmed)
    /\ HasLrcTag(Trimmed)
    /\ Answered(1)
    /\ sub.replies[1].format = "vtt"

\* C18: two requests that obtained the same payload get the same format, the same
\* parser and the same transcript from the same endpoint, whatever track kind,
\* language and preferred format each asked for
C18_ClassifiedByContentOnly ==
    (Answered(1) /\ Answered(2) /\ sub.replies[1].endpoint = sub.replies[2].endpoint) =>
        /\ sub.replies[1].format = sub.replies[2].format
        /\ sub.replies[1].parser = sub.replies[2].parser
        /\ sub.replies[1].text = sub.replies[2].text
        /\ sub.replies[1].error = sub.replies[2].error

\* a VTT payload answered for a caller that prefers srt and for one that prefers vtt
C18_Witness ==
    /\ Answered(1) /\ Answered(2)
    /\ sub.replies[1].endpoint = "raw" /\ sub.replies[2].endpoint = "raw"
    /\ sub.replies[1].request.subFormat = "srt" /\ sub.replies[2].request.subFormat = "vtt"
    /\ sub.replies[1].format = "vtt" /\ sub.replies[2].format = "vtt"

\* the fragment would be read as a control line of the dialect
Reserved(dialect, f) ==
    IF dialect = "srt" THEN IsAllDigits(f) \/ IsTimestampLine(f)
    ELSE IF dialect = "vtt"
    THEN \/ IsTimestampLine(f)
         \/ \E w \in {"WEBVTT", "NOTE", "STYLE", "::cue"} : StartsWith(f, w)
    ELSE IF dialect = "ass" THEN FALSE
    ELSE FALSE

Serialized(k) ==
    /\ sub.dialect # "none"
    /\ sub.replies[k].endpoint = "transcript"
    /\ \A i \in DOMAIN sub.fragments : ~Reserved(sub.dialect, sub.fragments[i])

\* C19: for each dialect, the transcript of a serialized sequence of fragments, none
\* of them a control line of the dialect, is the fragments joined by single spaces
C19_SerializeParseRoundTrip ==
    \A k \in {1, 2} : Serialized(k) => sub.replies[k].text = Join(sub.fragments)

\* a fragment without a comma and without a number standing alone
PlainWords(f) == IndexOf(f, ",", 1) = 0 /\ StripInnerNumbers(" " \o f \o " ", 1) = " " \o f \o " "

\* the round trip does hold for fragments of plain words
C19_PlainWordsRoundTrip ==
    \A k \in {1, 2} :
        (Serialized(k) /\ \A i \in DOMAIN sub.fragments : PlainWords(sub.fragments[i]))
            => sub.replies[k].text = Join(sub.fragments)

\* what is left of s after its first n commas, "" when it has fewer
RECURSIVE AfterCommas(_, _)
AfterCommas(s, n) ==
    IF n = 0 THEN s
    ELSE IF IndexOf(s, ",", 1) = 0 THEN ""
    ELSE AfterCommas(From(s, IndexOf(s, ",", 1) + 1), n - 1)

\* line i of the payload is a Dialogue line below an [Events] line
IsDialogueLine(i) ==
    /\ StartsWith(Trim(sub.content[i]), "Dialogue:")
    /\ \E j \in 1..(i - 1) : StartsWith(Trim(sub.content[j]), "[Events]")

\* C20: for every Dialogue line after [Events], the cue text is all that follows the
\* first 9 comma-delimited fields, commas included
C20_CueTextIsAllAfterNineFields ==
    \A k \in {1, 2} :
        (sub.replies[k].parser = "parseASS") =>
            \A i \in DOMAIN sub.content :
                IsDialogueLine(i) =>
                    AssCueText(Trim(sub.content[i]))
                        = Trim(AfterCommas(From(Trim(sub.content[i]), Len("Dialogue:") + 1), 9))

(***************************************************************************)
(* External calls of one acquisition                                       *)
(***************************************************************************)

\* the acquisition passed validation and came to its end
AcquisitionDone == pc = "done" /\ req = "ok"

\* C21 (as stated): each acquisition runs yt-dlp exactly once and calls the
\* transcription service at most once, whichever of the primary and fallback
\* paths it goes through.
C21_OneToolRunPerAcquisition ==
    /\ calls.service <= 1
    /\ AcquisitionDone => calls.subs + calls.audio = 1

\* C21 (amended): downloadSubtitles runs yt-dlp at most once, and exactly once
\* unless the cookies copy threw before the run; downloadAudio runs yt-dlp at
\* most once more, only on the fallback path after the run of downloadSubtitles;
\* the transcription service is called at most once, only after the audio run.
C21_ToolRunsPerAcquisition ==
    /\ calls.subs <= 1
    /\ calls.audio <= 1
    /\ calls.service <= 1
    /\ (AcquisitionDone /\ ds.cause # "cookies") => calls.subs = 1
    /\ calls.audio = 1 => (calls.subs = 1 /\ calls.transcribe = 1 /\ pc \in {"fallback", "reply", "done"})
    /\ calls.service = 1 => calls.audio = 1
    /\ (AcquisitionDone /\ calls.transcribe = 0) => calls.subs + calls.audio <= 1

\* an acquisition answered from the fallback after two yt-dlp runs and one
\* service call
C21_Witness ==
    /\ AcquisitionDone
    /\ calls.subs = 1
    /\ calls.audio = 1
    /\ calls.service = 1
    /\ out.status = 200
    /\ out.source = "whisper"

(***************************************************************************)
(* A blank caption file                                                    *)
(***************************************************************************)

\* downloadSubtitles has returned and the last file it read was empty or
\* whitespace-only
BlankFileFound ==
    /\ dpc = "returned"
    /\ ds.file \in SubFiles
    /\ ds.content \in {Blank, ""}

\* C25: when the caption file found for an acquisition is empty or
\* whitespace-only, downloadSubtitles returns null, so the caller treats the
\* primary path as failed (fallback if enabled, never a 'youtube' result), and
\* the file is still on disk with the content yt-dlp wrote.
C25_BlankFileGivesNullAndStays ==
    BlankFileFound =>
       /\ ds.result = "null"
       /\ ~ds.unlinkFailed
       /\ fs[ds.file] = ds.content
       /\ fs[ds.file] = ds.wrote[ds.file]
       /\ (pc \in {"fallback", "reply", "done"} /\ FallbackEnabled) => calls.transcribe = 1
       /\ pc = "done" => (out.source # "youtube" /\ out.status \in {200, 404, 500})

\* a successful run left only a blank file; the call returned null, the file
\* stayed, and the reply came from the fallback
C25_Witness ==
    /\ BlankFileFound
    /\ ds.exec = "ok"
    /\ ds.result = "null"
    /\ fs[ds.file] = Blank
    /\ pc = "done"
    /\ out.status = 200
    /\ out.source = "whisper"

(***************************************************************************)
(* Provenance of a successful result                                       *)
(***************************************************************************)

\* validateAndDownloadSubtitles returned a result object (reply 200)
Succeeded == pc = "done" /\ out.returned = "result"

\* C26: every successful result carries the provenance of the path that
\* produced its content: source is 'youtube' exactly when the content is what
\* downloadSubtitles returned, and 'whisper' exactly when downloadSubtitles
\* returned null and the content is what transcribeWithWhisper returned.
C26_SourceNamesProducingPath ==
    Succeeded =>
       /\ out.source \in {"youtube", "whisper"}
       /\ out.content # "null"
       /\ (out.source = "youtube") <=> (ds.result # "null")
       /\ (out.source = "whisper") <=> (ds.result = "null" /\ tw.result # "null")
       /\ out.source = "youtube" => (out.content = ds.result /\ calls.transcribe = 0)
       /\ out.source = "whisper" => (out.content = tw.result /\ calls.service = 1)

\* a result from the fallback after a yt-dlp run that was killed on timeout
C26_Witness ==
    /\ Succeeded
    /\ out.source = "whisper"
    /\ out.content = WhisperText
    /\ ds.exec = "timeout"
    /\ ds.result = "null"

\* a result from downloadSubtitles while the fallback is enabled
C26_YoutubeReached ==
    /\ Succeeded
    /\ out.source = "youtube"
    /\ out.content = ds.result
    /\ FallbackEnabled

(***************************************************************************)
(* White space of a transcript                                             *)
(***************************************************************************)

\* no leading or trailing white space and no two consecutive white-space characters
WhitespaceNormal(s) ==
    \A i \in 1..Len(s) :
        IsSpace(Char(s, i)) => (i > 1 /\ i < Len(s) /\ ~IsSpace(Char(s, i + 1)))

\* C27: the transcript parseSubtitles returns is in white-space normal form for
\* every input: no leading or trailing white space and no two consecutive
\* white-space characters (an empty transcript included).
C27_TranscriptIsWhitespaceNormal ==
    \A k \in {1, 2} :
        sub.replies[k].endpoint = "transcript" => WhitespaceNormal(sub.replies[k].text)

\* the payload has a cue with white space at both ends and in runs, and the transcript
\* made from it has words separated by one space
C27_Witness ==
    /\ sub.content \in SpacedPayloads
    /\ ~WhitespaceNormal(sub.content[Len(sub.content)])
    /\ sub.replies[1].endpoint = "transcript"
    /\ sub.replies[1].parser = "parseVTT"
    /\ sub.replies[1].text = "Hi you"

\* an ASS cue whose line break marker sits between white space
C27_AssCueReached ==
    /\ sub.content = <<"[Events]", "Dialogue: 0,,,,,,,,,a \\N  b">>
    /\ sub.replies[2].endpoint = "transcript"
    /\ sub.replies[2].parser = "parseASS"
    /\ sub.replies[2].text = "a b"

\* an SRT cue with numbers between runs of white space
C27_SrtCueReached ==
    /\ sub.content = <<" 1  b 2 ">>
    /\ sub.replies[2].endpoint = "transcript"
    /\ sub.replies[2].parser = "parseSRT"
    /\ sub.replies[2].text = "b"

(***************************************************************************)
(* The MCP HTTP server (src/src/mcp-http.ts): ensureAuth                   *)
(***************************************************************************)

MaxTtl == 1

MaxClock == 2

\* process.env.MCP_AUTH_TOKEN: unset, or its value
AuthEnv == {<<>>, <<"  ">>, <<" secret ">>, <<"secret">>}

\* const authToken = process.env.MCP_AUTH_TOKEN?.trim(); undefined and '' are both
\* falsy and are both "" here
authTokenOf(e) == IF e = <<>> THEN "" ELSE Trim(e[1])

\* request.headers.authorization as the client sends it with each of its requests:
\* absent, one value, or an array of values
AuthHeaders ==
    {<<>>, <<"Bearer secret">>, <<"bearer secret">>, <<"BeArEr secret">>, <<"Basic secret">>,
     <<"Bearer ">>, <<"Bearer  secret">>, <<"Bearer secreT">>, <<"Bearer secret1">>,
     <<"Bearer secret extra">>, <<"Bearer secreé">>, <<"secret">>,
     <<"Bearer wrong!", "Bearer secret">>}

\* getHeaderValue: the first value of an array, the value itself otherwise
getHeaderValue(value) == IF Len(value) = 0 THEN <<>> ELSE <<value[1]>>

\* header.split(' ')
RECURSIVE SplitFrom(_, _, _)
SplitFrom(s, i, field) ==
    IF i > Len(s) THEN <<field>>
    ELSE IF Char(s, i) = " " THEN <<field>> \o SplitFrom(s, i + 1, "")
    ELSE SplitFrom(s, i + 1, field \o Char(s, i))

Split(s) == SplitFrom(s, 1, "")

UpperCase == "ABCDEFGHIJKLMNOPQRSTUVWXYZ"

LowerCase == "abcdefghijklmnopqrstuvwxyz"

\* String.prototype.toLowerCase
RECURSIVE toLowerCase(_)
toLowerCase(s) ==
    IF s = "" THEN ""
    ELSE LET at == IndexOf(UpperCase, Char(s, 1), 1)
         IN  (IF at = 0 THEN Char(s, 1) ELSE Char(LowerCase, at)) \o toLowerCase(From(s, 2))

\* characters a header can carry that take one UTF-16 unit and two UTF-8 bytes
TwoByteChars == {"é"}

\* Buffer.from(s, 'utf8').length
RECURSIVE Utf8Length(_)
Utf8Length(s) ==
    IF s = "" THEN 0
    ELSE (IF Char(s, 1) \in TwoByteChars THEN 2 ELSE 1) + Utf8Length(From(s, 2))

\* crypto.timingSafeEqual(a, b): throws a RangeError when the byte lengths differ
timingSafeEqual(a, b) ==
    IF Utf8Length(a) # Utf8Length(b) THEN "throws"
    ELSE IF a = b THEN "equal" ELSE "differ"

\* scheme?.toLowerCase() === 'bearer'
SchemeIsBearer(scheme) == toLowerCase(scheme) = "bearer"

\* timingSafeEqual(Buffer.from(token), Buffer.from(authToken))
TokenMatches(token, authToken) == timingSafeEqual(token, authToken)

\* ensureAuth(request, reply): "pass", "401", or "throws" when timingSafeEqual throws
ensureAuth(authorization, authToken) ==
    IF authToken = "" THEN "pass"
    ELSE LET header == getHeaderValue(authorization)
         IN  IF header = <<>> \/ header = <<"">> THEN "401"
             ELSE LET parts == Split(header[1])
                      scheme == parts[1]
                      token == IF Len(parts) >= 2 THEN parts[2] ELSE ""
                  IN  IF ~SchemeIsBearer(scheme) \/ token = "" THEN "401"
                      ELSE IF Len(token) # Len(authToken) THEN "401"
                      ELSE LET cmp == TokenMatches(token, authToken)
                           IN  IF cmp = "throws" THEN "throws"
                               ELSE IF cmp = "equal" THEN "pass" ELSE "401"

\* ensureAuth for each configured token and each header of the model
AuthOutcome ==
    [t \in {authTokenOf(e) : e \in AuthEnv} |-> [h \in AuthHeaders |-> ensureAuth(h, t)]]

(***************************************************************************)
(* The MCP HTTP server: routes, transports and the cleanup timer           *)
(***************************************************************************)

InitMcp ==
    /\ \E e \in AuthEnv, h \in AuthHeaders, t \in 1..MaxTtl :
         mcp = [authToken |-> authTokenOf(e), header |-> h, ttl |-> t, clock |-> 0, maps |-> NoSessions,
                transport |-> [i \in SseIds |-> NoTransport], last |-> NoRequest]
    /\ AcqQuiet
    /\ NamesQuiet
    /\ PageQuiet
    /\ SubQuiet
    /\ ArgsQuiet
    /\ PlQuiet

\* what the request log of the model keeps of a step
Logged(route, method, header, sessionId, status, reached) ==
    [route |-> route, method |-> method, header |-> header, sessionId |-> sessionId,
     status |-> status, reached |-> reached,
     before |-> [maps |-> mcp.maps, transport |-> mcp.transport], at |-> mcp.clock]

\* the reply to a request ensureAuth did not let through: 401, or the 500 Fastify
\* sends when the handler throws
Refused(auth) == IF auth = "throws" THEN 500 ELSE 401

\* Date.now() moves on
M_Tick ==
    /\ mcp.clock < MaxClock
    /\ mcp' = [mcp EXCEPT !.clock = @ + 1,
                          !.last = Logged("clock", "none", <<>>, <<>>, 0, FALSE)]
    /\ UNCHANGED <<acqVars, namesVars, pageVars, subVars, argVars, plVars>>

SessionIdInputs == {<<>>, <<"mcp-1">>, <<"sse-1">>, <<"unknown">>}

Present(map, sessionId) ==
    /\ sessionId # <<>>
    /\ sessionId[1] \in DOMAIN map
    /\ map[sessionId[1]].present

\* GET, POST and DELETE /mcp: ensureAuth, then handleStreamablePost or
\* handleStreamableGetOrDelete; the transport of a DELETE closes and its onclose
\* removes the session
M_Mcp ==
    \E method \in {"GET", "POST", "DELETE"}, sessionId \in SessionIdInputs, initialize \in BOOLEAN :
      LET header == mcp.header
          auth == AuthOutcome[mcp.authToken][header]
          known == Present(mcp.maps.streamable, sessionId)
          free == {i \in StreamIds : ~mcp.maps.streamable[i].present}
      IN  /\ IF auth # "pass"
             THEN mcp' = [mcp EXCEPT !.last = Logged("/mcp", method, header, sessionId, Refused(auth), FALSE)]
             ELSE IF sessionId # <<>>
             THEN IF ~known
                  THEN mcp' = [mcp EXCEPT !.last = Logged("/mcp", method, header, sessionId, 404, TRUE)]
                  ELSE mcp' = [mcp EXCEPT
                                 !.maps.streamable[sessionId[1]] = IF method = "DELETE" THEN NoSession ELSE @,
                                 !.last = Logged("/mcp", method, header, sessionId, 200, TRUE)]
             ELSE IF method = "POST" /\ initialize /\ free # {}
             THEN \E id \in free :
                    mcp' = [mcp EXCEPT
                              !.maps.streamable[id] = [present |-> TRUE, createdAt |-> mcp.clock],
                              !.last = Logged("/mcp", method, header, sessionId, 200, TRUE)]
             ELSE mcp' = [mcp EXCEPT !.last = Logged("/mcp", method, header, sessionId, 400, TRUE)]
          /\ UNCHANGED <<acqVars, namesVars, pageVars, subVars, argVars, plVars>>

\* GET /sse up to await server.connect(transport): ensureAuth, a new transport with
\* its onclose handler set; the session is not in the map yet
M_SseGet ==
    \E header \in {mcp.header} :
      LET auth == AuthOutcome[mcp.authToken][header]
          free == {i \in SseIds : mcp.transport[i].phase = "none"}
      IN  /\ auth = "pass" => free # {}
          /\ IF auth # "pass"
             THEN mcp' = [mcp EXCEPT !.last = Logged("/sse", "GET", header, <<>>, Refused(auth), FALSE)]
             ELSE \E id \in free :
                    mcp' = [mcp EXCEPT
                              !.transport[id] = [phase |-> "connecting", closed |-> FALSE, closedIn |-> "none"],
                              !.last = Logged("/sse", "GET", header, <<id>>, 200, TRUE)]
          /\ UNCHANGED <<acqVars, namesVars, pageVars, subVars, argVars, plVars>>

\* sseSessions.set(transport.sessionId, {server, transport, createdAt: Date.now()})
RegisterAfterConnect(id) == [present |-> TRUE, createdAt |-> mcp.clock]

\* GET /sse after the await: server.connect resolved and the session is put in the
\* map, or it rejected and the handler ends
M_SseConnected(id) ==
    /\ mcp.transport[id].phase = "connecting"
    /\ \E connected \in BOOLEAN :
         mcp' = [mcp EXCEPT
                   !.transport[id].phase = IF connected THEN "established" ELSE "failed",
                   !.maps.sse[id] = IF connected THEN RegisterAfterConnect(id) ELSE @,
                   !.last = Logged("connected", "none", <<>>, <<id>>, 0, FALSE)]
    /\ UNCHANGED <<acqVars, namesVars, pageVars, subVars, argVars, plVars>>

\* the connection of an SSE transport closes: transport.onclose deletes the session
M_SseClose(id) ==
    /\ mcp.transport[id].phase \in {"connecting", "established"}
    /\ ~mcp.transport[id].closed
    /\ mcp' = [mcp EXCEPT
                 !.transport[id].closed = TRUE,
                 !.transport[id].closedIn = mcp.transport[id].phase,
                 !.maps.sse[id] = NoSession,
                 !.last = Logged("onclose", "none", <<>>, <<id>>, 0, FALSE)]
    /\ UNCHANGED <<acqVars, namesVars, pageVars, subVars, argVars, plVars>>

\* POST /message?sessionId=...: ensureAuth, then the look-up in sseSessions
M_Message ==
    \E header \in {mcp.header}, sessionId \in SessionIdInputs :
      LET auth == AuthOutcome[mcp.authToken][header]
          status == IF auth # "pass" THEN Refused(auth)
                    ELSE IF sessionId = <<>> THEN 400
                    ELSE IF ~Present(mcp.maps.sse, sessionId) THEN 404
                    ELSE 202
      IN  /\ mcp' = [mcp EXCEPT !.last = Logged("/message", "POST", header, sessionId, status, auth = "pass")]
          /\ UNCHANGED <<acqVars, namesVars, pageVars, subVars, argVars, plVars>>

\* a variant that also removes a session whose age equals the TTL
Expired_AtTtl(at, session) == session.present /\ at - session.createdAt >= mcp.ttl

\* now - session.createdAt > SESSION_TTL_MS
Expired(at, session) == session.present /\ at - session.createdAt > mcp.ttl

\* one map after the loop of cleanupExpiredSessions
Swept(map, at) == [i \in DOMAIN map |-> IF Expired(at, map[i]) THEN NoSession ELSE map[i]]

\* cleanupExpiredSessions(), run by the interval timer
M_Cleanup ==
    /\ mcp' = [mcp EXCEPT
                 !.maps = [streamable |-> Swept(mcp.maps.streamable, mcp.clock),
                           sse |-> Swept(mcp.maps.sse, mcp.clock)],
                 !.last = Logged("cleanup", "none", <<>>, <<>>, 0, FALSE)]
    /\ UNCHANGED <<acqVars, namesVars, pageVars, subVars, argVars, plVars>>

NextMcp ==
    \/ M_Tick
    \/ M_Mcp
    \/ M_SseGet
    \/ \E id \in SseIds : M_SseConnected(id)
    \/ \E id \in SseIds : M_SseClose(id)
    \/ M_Message
    \/ M_Cleanup

SpecMcp == InitMcp /\ [][NextMcp]_vars

\* the last step was a request to one of the three MCP routes
IsRequest == mcp.last.route \in {"/mcp", "/sse", "/message"}

\* the header value the server looks at
SentHeader == getHeaderValue(mcp.last.header)

\* the header is exactly '<scheme> <token>': a scheme that is Bearer in any case, one
\* space, and the configured token
IsBearerToken(header, authToken) ==
    /\ header # <<>>
    /\ Len(header[1]) = Len("Bearer ") + Len(authToken)
    /\ toLowerCase(SubSeq(header[1], 1, Len("Bearer"))) = "bearer"
    /\ Char(header[1], Len("Bearer ")) = " "
    /\ From(header[1], Len("Bearer ") + 1) = authToken

\* the sessions and transports are as they were before the last step
SessionsUntouched ==
    /\ mcp.maps = mcp.last.before.maps
    /\ mcp.transport = mcp.last.before.transport

\* C22 (as stated): with a token configured, a request to /mcp, /sse or /message
\* reaches session handling only if its Authorization header is 'Bearer <token>'
\* (scheme in any case) with the configured token, every other request gets 401 and
\* changes no session state; with no token configured every request passes.
C22_OnlyBearerTokenPasses ==
    IsRequest =>
       IF mcp.authToken = ""
       THEN mcp.last.reached
       ELSE /\ mcp.last.reached => IsBearerToken(SentHeader, mcp.authToken)
            /\ ~IsBearerToken(SentHeader, mcp.authToken) =>
                  (mcp.last.status = 401 /\ SessionsUntouched)

\* what the code does guarantee: a request passes only if the first two space-separated
\* fields of its header are a Bearer scheme and the configured token, and a request
\* that does not pass gets 401 or 500 and changes no session state
C22_NoPassWithoutToken ==
    (IsRequest /\ mcp.authToken # "") =>
       /\ mcp.last.reached =>
             /\ SentHeader # <<>>
             /\ Len(Split(SentHeader[1])) >= 2
             /\ toLowerCase(Split(SentHeader[1])[1]) = "bearer"
             /\ Split(SentHeader[1])[2] = mcp.authToken
       /\ ~mcp.last.reached => (mcp.last.status \in {401, 500} /\ SessionsUntouched)
       /\ mcp.last.status = 500 => Utf8Length(Split(SentHeader[1])[2]) # Len(Split(SentHeader[1])[2])

\* a request with the right token in another case of the scheme opened an SSE transport
C22_PassReached ==
    /\ mcp.authToken = "secret"
    /\ mcp.last.route = "/sse"
    /\ mcp.last.header = <<"BeArEr secret">>
    /\ mcp.last.reached
    /\ ~SessionsUntouched

\* C24: after a run of cleanupExpiredSessions neither map holds a session whose age
\* (now - createdAt) exceeds the TTL, every session whose age does not exceed it is
\* in its map as before, and no session was added.
C24_CleanupRemovesExactlyExpired ==
    mcp.last.route = "cleanup" =>
       \A kind \in {"streamable", "sse"} :
          \A id \in DOMAIN mcp.maps[kind] :
             LET now_ == mcp.last.at
                 was == mcp.last.before.maps[kind][id]
                 is == mcp.maps[kind][id]
             IN  /\ is.present => now_ - is.createdAt <= mcp.ttl
                 /\ (was.present /\ now_ - was.createdAt <= mcp.ttl) => is = was
                 /\ (was.present /\ now_ - was.createdAt > mcp.ttl) => ~is.present
                 /\ ~was.present => ~is.present

\* one run removed an SSE session older than the TTL and kept a streamable session
\* whose age is exactly the TTL
C24_Witness ==
    /\ mcp.last.route = "cleanup"
    /\ mcp.last.before.maps.sse["sse-1"].present
    /\ ~mcp.maps.sse["sse-1"].present
    /\ mcp.maps.streamable["mcp-1"].present
    /\ mcp.clock - mcp.maps.streamable["mcp-1"].createdAt = mcp.ttl

C28_OnlyCloseDuringConnectLeaks ==
    \A id \in SseIds :
       (mcp.transport[id].closed /\ mcp.maps.sse[id].present) =>
           mcp.transport[id].closedIn = "connecting"

\* an established transport closed, and its session left the map
C28_CloseAfterConnectReached ==
    /\ mcp.transport["sse-1"].closedIn = "established"
    /\ ~mcp.maps.sse["sse-1"].present
    /\ mcp.last.route = "/message"
    /\ mcp.last.status = 404

\* a token of the right length in UTF-16 units and a different length in UTF-8 bytes
\* makes timingSafeEqual throw, and the request is answered 500
C22_ThrowReached ==
    /\ mcp.last.route = "/message"
    /\ mcp.last.header = <<"Bearer secreé">>
    /\ mcp.last.status = 500
    /\ ~mcp.last.reached

(***************************************************************************)
(* The argument list of a yt-dlp run: searchVideos and appendYtDlpEnvArgs  *)
(* (src/src/youtube.ts)                                                    *)
(***************************************************************************)

\* args.splice(-1, 0, ...items): the items go in before the last element
SpliceBeforeLast(args, items) ==
    IF Len(args) = 0 THEN items
    ELSE SubSeq(args, 1, Len(args) - 1) \o items \o <<args[Len(args)]>>

\* the same when the variable is set (after trim where the code trims)
SpliceIf(args, value, items) == IF value = "" THEN args ELSE SpliceBeforeLast(args, items)

\* extraArgs.split(/\s+/).filter((p) => p.length > 0)
RECURSIVE SplitWhitespace(_, _, _)
SplitWhitespace(s, i, token) ==
    IF i > Len(s) THEN (IF token = "" THEN <<>> ELSE <<token>>)
    ELSE IF IsSpace(Char(s, i))
    THEN (IF token = "" THEN <<>> ELSE <<token>>) \o SplitWhitespace(s, i + 1, "")
    ELSE SplitWhitespace(s, i + 1, token \o Char(s, i))

\* for (let i = parts.length - 1; i >= 0; i--) args.splice(-1, 0, parts[i])
RECURSIVE SpliceEachFromLast(_, _, _)
SpliceEachFromLast(args, parts, i) ==
    IF i = 0 THEN args
    ELSE SpliceEachFromLast(SpliceBeforeLast(args, <<parts[i]>>), parts, i - 1)

\* appendYtDlpEnvArgs(args, env) with process.env folded into env
appendYtDlpEnvArgs(args, e) ==
    LET a1 == SpliceBeforeLast(args, <<"--no-progress", "--quiet">>)
        a2 == IF e.noWarnings = "1" THEN SpliceBeforeLast(a1, <<"--no-warnings">>) ELSE a1
        a3 == SpliceIf(a2, e.cookies, <<"--cookies", e.cookies>>)
        a4 == SpliceIf(a3, e.proxy, <<"--proxy", e.proxy>>)
        a5 == SpliceIf(a4, e.jsRuntimes, <<"--js-runtimes", e.jsRuntimes>>)
        a6 == SpliceIf(a5, e.remoteComponents, <<"--remote-components", e.remoteComponents>>)
        a7 == SpliceIf(a6, Trim(e.retries), <<"-R", Trim(e.retries)>>)
        a8 == SpliceIf(a7, Trim(e.retrySleep), <<"--retry-sleep", Trim(e.retrySleep)>>)
        a9 == SpliceIf(a8, Trim(e.sleepRequests), <<"--sleep-requests", Trim(e.sleepRequests)>>)
        a10 == SpliceIf(a9, Trim(e.sleepInterval), <<"--sleep-interval", Trim(e.sleepInterval)>>)
        a11 == SpliceIf(a10, Trim(e.maxSleepInterval), <<"--max-sleep-interval", Trim(e.maxSleepInterval)>>)
        a12 == SpliceIf(a11, Trim(e.sleepSubtitles), <<"--sleep-subtitles", Trim(e.sleepSubtitles)>>)
        parts == SplitWhitespace(Trim(e.extraArgs), 1, "")
    IN  SpliceEachFromLast(a12, parts, Len(parts))

\* args.push(flag, value) when the option is supplied
PushIf(args, value, flag) == IF value = "" THEN args ELSE args \o <<flag, value>>

\* `ytsearch${requestCount}:${query}` with limit clamped to 1..50 and offset added
searchUrl(query, limit, offset) ==
    LET sanitizedLimit == Min(IF limit > 1 THEN limit ELSE 1, 50)
        requestCount == Min(50, sanitizedLimit + offset)
    IN  "ytsearch" \o NumberToString(requestCount) \o ":" \o query

\* the argument list searchVideos hands to execFile
searchVideosArgs(query, limit, offset, options, e) ==
    LET b0 == <<"--flat-playlist", "--dump-single-json", "--skip-download", searchUrl(query, limit, offset)>>
        b1 == PushIf(b0, options.dateAfter, "--dateafter")
        b2 == PushIf(b1, options.dateBefore, "--datebefore")
        b3 == PushIf(b2, options.date, "--date")
        b4 == PushIf(b3, options.matchFilter, "--match-filter")
        b5 == PushIf(b4, Trim(e.ageLimit), "--age-limit")
    IN  [before |-> b5, args |-> appendYtDlpEnvArgs(b5, e)]

\* options of a search: each supplied or not
SearchOptions ==
    [dateAfter : {"", "now-1week"}, dateBefore : {"", "now-1year"},
     date : {"", "20231215"}, matchFilter : {"", "!is_live"}]

\* settings of the environment
YtDlpEnvs ==
    {NoYtDlpEnv,
     [NoYtDlpEnv EXCEPT !.ageLimit = " 18 "],
     [NoYtDlpEnv EXCEPT !.cookies = "/cookies.txt", !.proxy = "socks5://127.0.0.1:9050",
                        !.jsRuntimes = "node", !.remoteComponents = "ejs:github"],
     [NoYtDlpEnv EXCEPT !.noWarnings = "1", !.retries = " 3 ", !.retrySleep = "2",
                        !.sleepRequests = "1", !.sleepInterval = "1", !.maxSleepInterval = "5",
                        !.sleepSubtitles = "1"],
     [NoYtDlpEnv EXCEPT !.extraArgs = "-v"],
     [NoYtDlpEnv EXCEPT !.extraArgs = "--no-check-certificate -v"],
     [NoYtDlpEnv EXCEPT !.extraArgs = "  --socket-timeout \t 10  -4 ", !.noWarnings = "0"],
     [NoYtDlpEnv EXCEPT !.extraArgs = "   "]}

\* argument lists that end with the URL, as the other callers build them
UrlArgLists ==
    {<<"https://example.com">>,
     <<"--skip-download", "https://example.com">>,
     <<"--dump-single-json", "--skip-download", "https://example.com">>}

InitArgs ==
    /\ \E o \in SearchOptions, e \in YtDlpEnvs :
         ya = [call |-> "none", options |-> o, env |-> e, before |-> <<>>, args |-> <<>>, done |-> FALSE]
    /\ AcqQuiet
    /\ NamesQuiet
    /\ PageQuiet
    /\ SubQuiet
    /\ McpQuiet
    /\ PlQuiet

\* searchVideos(query, limit, logger, options) up to the call of execFile
A_SearchVideos ==
    /\ ya.call = "none"
    /\ \E limit \in {0, 10, 60}, offset \in {0, 5} :
         LET built == searchVideosArgs("query", limit, offset, ya.options, ya.env)
         IN  ya' = [ya EXCEPT !.call = "searchVideos", !.before = built.before,
                              !.args = built.args, !.done = TRUE]
    /\ UNCHANGED <<acqVars, namesVars, pageVars, subVars, mcpVars, plVars>>

\* appendYtDlpEnvArgs(args, env) on a list whose last element is the URL
A_Append ==
    /\ ya.call = "none"
    /\ \E args \in UrlArgLists :
         ya' = [ya EXCEPT !.call = "appendYtDlpEnvArgs", !.before = args,
                          !.args = appendYtDlpEnvArgs(args, ya.env), !.done = TRUE]
    /\ UNCHANGED <<acqVars, namesVars, pageVars, subVars, mcpVars, plVars>>

NextArgs ==
    \/ A_SearchVideos
    \/ A_Append

SpecArgs == InitArgs /\ [][NextArgs]_vars

\* flag is in the list and value is the element right after it
Follows(args, flag, value) ==
    \E i \in 1..(Len(args) - 1) : args[i] = flag /\ args[i + 1] = value

\* the flags of the options that were supplied, with their values
Supplied ==
    {p \in {<<"--dateafter", ya.options.dateAfter>>, <<"--datebefore", ya.options.dateBefore>>,
            <<"--date", ya.options.date>>, <<"--match-filter", ya.options.matchFilter>>,
            <<"--age-limit", Trim(ya.env.ageLimit)>>} : p[2] # ""}

\* C23 (as stated): in the list searchVideos passes to yt-dlp every supplied search
\* option has its value right after its flag, whatever appendYtDlpEnvArgs inserts.
C23_OptionValuesFollowFlags ==
    ya.call = "searchVideos" => \A p \in Supplied : Follows(ya.args, p[1], p[2])

\* what holds instead: every supplied option but the one pushed last keeps its value;
\* the value of the one pushed last is the last element of the list and the flags of
\* appendYtDlpEnvArgs stand between it and its flag ('--no-progress' follows the flag)
C23_LastOptionIsSplit ==
    (ya.call = "searchVideos" /\ Supplied # {}) =>
       LET n == Len(ya.before)
           lastFlag == ya.before[n - 1]
           lastValue == ya.before[n]
       IN  /\ \A p \in Supplied : p[1] # lastFlag => Follows(ya.args, p[1], p[2])
           /\ Follows(ya.args, lastFlag, "--no-progress")
           /\ ya.args[Len(ya.args)] = lastValue

\* with no option supplied the search URL is last and stays last
C23_NoOptionReached ==
    /\ ya.call = "searchVideos"
    /\ Supplied = {}
    /\ ya.args[Len(ya.args)] = "ytsearch15:query"
    /\ Follows(ya.args, "--skip-download", "--no-progress")

\* the tokens of YT_DLP_EXTRA_ARGS
ExtraTokens == SplitWhitespace(Trim(ya.env.extraArgs), 1, "")

\* C29 (as stated): the tokens of YT_DLP_EXTRA_ARGS stand right before the final URL
\* argument in the order in which they were written, and the URL stays last.
C29_ExtraArgsKeepOrder ==
    ya.call = "appendYtDlpEnvArgs" =>
       LET n == Len(ya.args)
           k == Len(ExtraTokens)
       IN  /\ ya.args[n] = ya.before[Len(ya.before)]
           /\ SubSeq(ya.args, n - k, n - 1) = ExtraTokens

\* what holds instead: the tokens stand right before the URL in reverse order
C29_ExtraArgsReversed ==
    ya.call = "appendYtDlpEnvArgs" =>
       LET n == Len(ya.args)
           k == Len(ExtraTokens)
       IN  /\ ya.args[n] = ya.before[Len(ya.before)]
           /\ SubSeq(ya.args, n - k, n - 1) = [i \in 1..k |-> ExtraTokens[k + 1 - i]]

\* three tokens, a flag with its value among them
C29_ReversedReached ==
    /\ ya.call = "appendYtDlpEnvArgs"
    /\ ExtraTokens = <<"--socket-timeout", "10", "-4">>
    /\ Follows(ya.args, "10", "--socket-timeout")
    /\ ya.args[Len(ya.args)] = "https://example.com"

(***************************************************************************)
(* downloadPlaylistSubtitles (src/src/youtube.ts)                          *)
(***************************************************************************)

InitPlaylist ==
    /\ \E c \in BOOLEAN : pl = [NoPlaylistCall EXCEPT !.pc = "entry", !.cookies = c]
    /\ AcqQuiet
    /\ NamesQuiet
    /\ PageQuiet
    /\ SubQuiet
    /\ McpQuiet
    /\ ArgsQuiet

\* tempDir is a fresh name; ensureWritableCookiesFile runs before the try block
PL_Entry ==
    /\ pl.pc = "entry"
    /\ IF pl.cookies
       THEN \E r \in CookieOutcomes :
              pl' = [pl EXCEPT !.cookieTemp = (r = "copied"),
                               !.pc = IF r = "throws" THEN "raised" ELSE "mkdir",
                               !.result = IF r = "throws" THEN "raised" ELSE @,
                               !.cause = IF r = "throws" THEN "cookies" ELSE @]
       ELSE pl' = [pl EXCEPT !.pc = "mkdir"]
    /\ UNCHANGED <<acqVars, namesVars, pageVars, subVars, mcpVars, argVars>>

\* await mkdir(tempDir, {recursive: true}); an error goes to the catch block
PL_Mkdir ==
    /\ pl.pc = "mkdir"
    /\ \E ok \in BOOLEAN :
         pl' = IF ok THEN [pl EXCEPT !.dir = TRUE, !.pc = "exec"]
               ELSE [pl EXCEPT !.pc = "finally", !.settled = "null", !.cause = "mkdir"]
    /\ UNCHANGED <<acqVars, namesVars, pageVars, subVars, mcpVars, argVars>>

\* the files a playlist run can leave in the temp directory, by exit status
PlaylistWrites(o) ==
    IF o = "ENOENT"
    THEN {[f \in SeqRange(PlFiles) |-> Absent]}
    ELSE {w \in [SeqRange(PlFiles) -> {Absent, Blank, "1 00:00:00,000 --> 00:00:01,000 Hello"}] :
            \A f \in SeqRange(PlFiles) \ {"abc123.en.srt"} : w[f] # Blank}

\* await execFileAsync('yt-dlp', args, {timeout}); an error or a timeout goes to the
\* catch block, which returns null
PL_Exec ==
    /\ pl.pc = "exec"
    /\ \E o \in ExecOutcomes : \E w \in PlaylistWrites(o) :
         pl' = [pl EXCEPT !.exec = o, !.files = w,
                          !.pc = IF o = "ok" THEN "readdir" ELSE "finally",
                          !.settled = IF o = "ok" THEN @ ELSE "null",
                          !.cause = IF o = "ok" THEN @ ELSE o]
    /\ UNCHANGED <<acqVars, namesVars, pageVars, subVars, mcpVars, argVars>>

\* const files = await readdir(tempDir); files.filter(has a subtitle extension)
PL_Readdir ==
    /\ pl.pc = "readdir"
    /\ \E ok \in BOOLEAN :
         pl' = IF ok
               THEN [pl EXCEPT !.todo = SelectSeq(PlFiles, LAMBDA f : pl.files[f] # Absent /\ hasSubtitleExtension(f)),
                               !.pc = "read"]
               ELSE [pl EXCEPT !.pc = "finally", !.settled = "null", !.cause = "readdir"]
    /\ UNCHANGED <<acqVars, namesVars, pageVars, subVars, mcpVars, argVars>>

\* file.split('.')
RECURSIVE SplitDots(_, _, _)
SplitDots(s, i, field) ==
    IF i > Len(s) THEN <<field>>
    ELSE IF Char(s, i) = "." THEN <<field>> \o SplitDots(s, i + 1, "")
    ELSE SplitDots(s, i + 1, field \o Char(s, i))

\* parts.join('.')
RECURSIVE JoinDots(_)
JoinDots(parts) ==
    IF Len(parts) = 0 THEN ""
    ELSE IF Len(parts) = 1 THEN parts[1]
    ELSE parts[1] \o "." \o JoinDots(Tail(parts))

\* the video id of a file name, or "" when the loop passes over the file: fewer than
\* three parts, an empty id, or an extension that is not a subtitle extension
PlaylistVideoId(file) ==
    LET parts == SplitDots(file, 1, "")
        n == Len(parts)
    IN  IF n < 3 THEN ""
        ELSE IF ("." \o toLowerCase(parts[n])) \notin SeqRange(SUB_EXTENSIONS) THEN ""
        ELSE JoinDots(SubSeq(parts, 1, n - 2))

\* one round of the loop over subtitleFiles: readFile (its error is caught), push when
\* the content is not blank, unlink with its error swallowed; after the last file the
\* try block returns results
PL_ReadFile ==
    /\ pl.pc = "read"
    /\ IF Len(pl.todo) = 0
       THEN pl' = [pl EXCEPT !.pc = "finally", !.settled = "results"]
       ELSE LET file == Head(pl.todo)
                videoId == PlaylistVideoId(file)
            IN  IF videoId = ""
                THEN pl' = [pl EXCEPT !.todo = Tail(@)]
                ELSE \E readOk \in BOOLEAN, unlinkOk \in BOOLEAN :
                       pl' = [pl EXCEPT
                                !.todo = Tail(@),
                                !.results = IF readOk /\ IsUsable(pl.files[file])
                                            THEN Append(@, [videoId |-> videoId, content |-> pl.files[file]])
                                            ELSE @,
                                !.files = Unlink(@, file, unlinkOk)]
    /\ UNCHANGED <<acqVars, namesVars, pageVars, subVars, mcpVars, argVars>>

\* a variant whose finally block does not remove the directory
RmRecursive_Skipped(exists, ok) == exists

\* rm(tempDir, {recursive: true, force: true}): whether the directory still exists
RmRecursive(exists, ok) == IF ok THEN FALSE ELSE exists

\* finally { await cookiesCleanup?.(); await rm(tempDir, ...).catch(() => {}) }, then
\* the call returns what the try or the catch block settled
PL_Finally ==
    /\ pl.pc = "finally"
    /\ \E cookieOk \in BOOLEAN, rmOk \in BOOLEAN :
         LET left == RmRecursive(pl.dir, rmOk)
         IN  pl' = [pl EXCEPT
                      !.cookieTemp = IF cookieOk THEN FALSE ELSE @,
                      !.dir = left,
                      !.files = IF left THEN @ ELSE [f \in SeqRange(PlFiles) |-> Absent],
                      !.rmTried = TRUE,
                      !.rmFailed = ~rmOk,
                      !.result = pl.settled,
                      !.pc = "returned"]
    /\ UNCHANGED <<acqVars, namesVars, pageVars, subVars, mcpVars, argVars>>

NextPlaylist ==
    \/ PL_Entry
    \/ PL_Mkdir
    \/ PL_Exec
    \/ PL_Readdir
    \/ PL_ReadFile
    \/ PL_Finally

SpecPlaylist == InitPlaylist /\ [][NextPlaylist]_vars

\* the call has ended, by returning or by rejecting
PlaylistEnded == pl.pc \in {"returned", "raised"}

\* C30: when downloadPlaylistSubtitles ends, the temp directory it created is gone
\* on every exit path (results, yt-dlp error or timeout, readdir or read failure,
\* mkdir failure) unless rm itself failed; rm is always attempted once the try block
\* was entered, its failure is swallowed, and the call returns what the try or catch
\* block settled whether rm succeeded or not. A call that rejects before the try
\* block never created the directory.
C30_TempDirRemovedOnEveryExit ==
    /\ pl.pc = "returned" =>
          /\ pl.rmTried
          /\ pl.dir => pl.rmFailed
          /\ ~pl.dir => \A f \in SeqRange(PlFiles) : pl.files[f] = Absent
          /\ pl.result = pl.settled
          /\ pl.result \in {"null", "results"}
          /\ (pl.result = "results") <=> (pl.cause = "none")
    /\ pl.pc = "raised" => (~pl.dir /\ pl.cause = "cookies")
    /\ (pl.dir /\ ~PlaylistEnded) => ~pl.rmTried

\* yt-dlp was killed on timeout after it wrote files; the call returned null and the
\* directory with the files is gone
C30_Witness ==
    /\ pl.pc = "returned"
    /\ pl.exec = "timeout"
    /\ pl.result = "null"
    /\ pl.rmTried
    /\ ~pl.rmFailed
    /\ ~pl.dir

\* rm failed after a run that returned results: the results are returned all the same
C30_RmFailureReached ==
    /\ pl.pc = "returned"
    /\ pl.rmFailed
    /\ pl.dir
    /\ pl.result = "results"
    /\ Len(pl.results) = 2

====
